---- MODULE Spec2Model ----
(***************************************************************************)
(* Model of the token-balance aggregation code of the ChanchisPolvo web    *)
(* app: apps/web/Alchemy/alchemyconf.ts (per-network fetch, per-wallet     *)
(* fan-out, metadata enrichment) and apps/web/Alchemy/useTokenBalances.tsx *)
(* (the React hooks that drive the scans).                                 *)
(*                                                                         *)
(* JavaScript values are modelled as follows.  A string is a sequence of   *)
(* one-character strings where the code takes it apart (addresses, hex and *)
(* decimal amounts) and a TLA+ string where the code only passes it on     *)
(* (messages, labels, network names).  An object is a record holding       *)
(* exactly the properties that are present, so "error is absent" is        *)
(* "error" \notin DOMAIN r.  A bigint is an integer.                       *)
(***************************************************************************)
EXTENDS Integers, Sequences, FiniteSets, Bags, TLC

VARIABLES
    NEXT_PUBLIC_ALCHEMY_API_KEY, \* the environment variable ("" when not set)
    networkKeys,     \* Object.keys(ALCHEMY_NETWORKS) as the running build has it
    nativeBalance,   \* the chain: the native-asset balance (a hex quantity) of
                     \* the wallet on the network getTokenBalancesForNetwork asks
    fmtBalance,      \* formatTokenBalance: the balance argument
    fmtDecimals,     \* formatTokenBalance: the decimals argument
    fmtOut,          \* what that call returned, NotCalled before it
    fnKey,           \* getTokenBalancesForNetwork: the networkKey argument
    fnResp,          \* what fetch() does for the one request of that call
    fnOut,           \* the settled promise of that call, NotCalled before it
    calls,           \* the getAllTokenBalances[WithMetadata] calls, by call number
    requests,        \* bag of the HTTP requests issued so far
    delivered,       \* the response each settled request got, by request
    includeMetadata, \* the option useMultiWalletTokenBalances was mounted with
    allBalances,     \* useMultiWalletTokenBalances: the allBalances state
    isLoading,       \* useMultiWalletTokenBalances: the isLoading state
    scans,           \* the searchAllWallets invocations, by invocation number
    useAccount,      \* what wagmi's useAccount() returns: address, isConnected
    usePrivy,        \* what usePrivy() returns: ready, authenticated
    privyWalletsRaw, \* what useWallets() returns: the wallets Privy holds
    privyWallets,    \* useMultipleWallets: the privyWallets state
    autoFetch,       \* the option useTokenBalances was mounted with
    useTokenBalances, \* useTokenBalances: its balances, isLoading, error state
    fetches,         \* the fetchBalances invocations that started a scan
    effectsDue,      \* the effects of the mounted hook whose dependencies
                     \* changed in the last render and that have not run yet
    lastOp           \* the handler that ran last: its name, its argument, the
                     \* number of HTTP requests it issued and the
                     \* searchAllWallets invocations it completed

envVars == <<NEXT_PUBLIC_ALCHEMY_API_KEY, networkKeys, nativeBalance>>
fmtVars == <<fmtBalance, fmtDecimals, fmtOut>>
fnVars == <<fnKey, fnResp, fnOut>>
callVars == <<calls, requests, delivered>>
hookVars == <<includeMetadata, allBalances, isLoading, scans>>
reactVars == <<useAccount, effectsDue>>
walletVars == <<usePrivy, privyWalletsRaw, privyWallets>>
fetchVars == <<autoFetch, useTokenBalances, fetches>>
vars == <<envVars, fmtVars, fnVars, callVars, hookVars, reactVars, walletVars,
          fetchVars, lastOp>>

(***************************************************************************)
(* Bounds of the model                                                     *)
(***************************************************************************)
\* longest tokenBalances array a provider response carries
MaxTokens == 2
\* longest wallet list handed to searchAllWallets
MaxWallets == 2
\* number of registry entries the build of the hook specification carries
\* (the first NumNetworks of NetworkOrder)
NumNetworks == 2
\* number of searchAllWallets invocations with a non-empty list in the
\* specification of repeated scans
MaxScans == 2

(***************************************************************************)
(* Strings that the code parses                                            *)
(***************************************************************************)
DecChars == <<"0", "1", "2", "3", "4", "5", "6", "7", "8", "9">>
LowerHex == <<"a", "b", "c", "d", "e", "f">>
UpperHex == <<"A", "B", "C", "D", "E", "F">>

IsDecChar(c) == \E i \in 1..Len(DecChars) : DecChars[i] = c
IsHexChar(c) ==
    \/ IsDecChar(c)
    \/ \E i \in 1..Len(LowerHex) : LowerHex[i] = c
    \/ \E i \in 1..Len(UpperHex) : UpperHex[i] = c

HexVal(c) ==
    IF IsDecChar(c)
    THEN (CHOOSE i \in 1..Len(DecChars) : DecChars[i] = c) - 1
    ELSE IF \E i \in 1..Len(LowerHex) : LowerHex[i] = c
    THEN (CHOOSE i \in 1..Len(LowerHex) : LowerHex[i] = c) + 9
    ELSE (CHOOSE i \in 1..Len(UpperHex) : UpperHex[i] = c) + 9

RECURSIVE DigitsValue(_, _)
DigitsValue(s, base) ==
    IF s = <<>> THEN 0
    ELSE DigitsValue(SubSeq(s, 1, Len(s) - 1), base) * base + HexVal(s[Len(s)])

\* BigInt(string): the empty string is 0n, "0x"/"0X" starts a hexadecimal
\* literal with at least one digit, anything else must be decimal digits;
\* every other string is a SyntaxError.
BigIntParses(s) ==
    \/ s = <<>>
    \/ /\ Len(s) >= 3
       /\ s[1] = "0"
       /\ s[2] \in {"x", "X"}
       /\ \A i \in 3..Len(s) : IsHexChar(s[i])
    \/ /\ Len(s) >= 1
       /\ \A i \in 1..Len(s) : IsDecChar(s[i])

BigInt(s) ==
    IF Len(s) >= 3 /\ s[1] = "0" /\ s[2] \in {"x", "X"}
    THEN DigitsValue(SubSeq(s, 3, Len(s)), 16)
    ELSE DigitsValue(s, 10)

\* bigint.toString(): decimal digits, no leading zeros
RECURSIVE BigIntToString(_)
BigIntToString(n) ==
    IF n < 10 THEN <<DecChars[n + 1]>>
    ELSE Append(BigIntToString(n \div 10), DecChars[(n % 10) + 1])

(***************************************************************************)
(* The network registry                                                    *)
(***************************************************************************)
\* Object.keys(ALCHEMY_NETWORKS), in insertion order
NetworkOrder == <<"base", "polygon", "celo", "arbitrum", "scroll", "monad">>

ALCHEMY_NETWORKS ==
    [base     |-> [name |-> "Base",     chainId |-> 8453],
     polygon  |-> [name |-> "Polygon",  chainId |-> 137],
     celo     |-> [name |-> "Celo",     chainId |-> 42220],
     arbitrum |-> [name |-> "Arbitrum", chainId |-> 42161],
     scroll   |-> [name |-> "Scroll",   chainId |-> 534352],
     monad    |-> [name |-> "Monad",    chainId |-> 10143]]

IsRegistered(networkKey) == networkKey \in DOMAIN ALCHEMY_NETWORKS

(***************************************************************************)
(* Thrown values and promise outcomes                                      *)
(***************************************************************************)
\* new Error(message), and a thrown value that is no Error instance
ErrorOf(message) == [isError |-> TRUE, message |-> message]
NonError == [isError |-> FALSE]

Returned(v) == [threw |-> FALSE, value |-> v]
Thrown(e) == [threw |-> TRUE, error |-> e]

NotCalled == [called |-> FALSE]

\* getAlchemyApiKey: throws when the variable is unset or empty
ApiKeyMissing(apiKey) == apiKey = ""
ApiKeyError ==
    ErrorOf("NEXT_PUBLIC_ALCHEMY_API_KEY no esta configurada en las variables de entorno")

(***************************************************************************)
(* getTokenBalancesForNetwork                                              *)
(***************************************************************************)
FailedNetwork(network, message) ==
    [network |-> network.name, chainId |-> network.chainId,
     success |-> FALSE, error |-> message, tokens |-> <<>>]

\* the amount read under a guard that takes what BigInt cannot read for '0'
BalanceOrZero_UnreadableIsZero(token) ==
    IF "tokenBalance" \in DOMAIN token /\ token.tokenBalance # <<>>
       /\ BigIntParses(token.tokenBalance)
    THEN token.tokenBalance
    ELSE <<"0">>

\* token.tokenBalance || '0'
BalanceOrZero(token) ==
    IF "tokenBalance" \in DOMAIN token /\ token.tokenBalance # <<>>
    THEN token.tokenBalance
    ELSE <<"0">>

\* the filter written with >= in place of >
IsNonZero_KeepsZero(token) == BigInt(BalanceOrZero(token)) >= 0

\* the filter callback of nonZeroBalances
IsNonZero(token) == BigInt(BalanceOrZero(token)) > 0

RECURSIVE SelectTokens(_)
SelectTokens(tokenBalances) ==
    IF tokenBalances = <<>> THEN <<>>
    ELSE LET rest == SelectTokens(Tail(tokenBalances))
         IN  IF IsNonZero(Head(tokenBalances))
             THEN <<Head(tokenBalances)>> \o rest
             ELSE rest

\* the map callback building a TokenBalance
ToTokenBalance(token) ==
    [contractAddress |-> token.contractAddress,
     balance |-> BigIntToString(BigInt(token.tokenBalance))]

\* data.result?.tokenBalances || []
TokenBalancesOf(data) ==
    IF "result" \in DOMAIN data /\ "tokenBalances" \in DOMAIN data.result
    THEN data.result.tokenBalances
    ELSE <<>>

\* data.error.message || 'Error de la API'
RpcErrorMessage(err) ==
    IF "message" \in DOMAIN err /\ err.message # ""
    THEN err.message
    ELSE "Error de la API"

\* the catch clause of the outer try
CaughtMessage(e) == IF e.isError THEN e.message ELSE "Error de conexion"

\* The body of the try block once fetch() has settled with resp.  A response
\* is a rejection (fetch or response.text() rejects), a non-OK status, or an
\* OK status whose text is no JSON ("html"), the JSON null ("null"), or a JSON
\* object (data).  A null body makes data.error a TypeError and an amount
\* BigInt cannot read makes the filter a SyntaxError; both land in the catch,
\* and so would BigInt(token.tokenBalance) in the map for a kept token without
\* an amount (the filter keeps none).
ProcessResponse(network, resp) ==
    IF resp.kind = "reject"
    THEN FailedNetwork(network, CaughtMessage(resp.error))
    ELSE IF ~resp.ok
    THEN FailedNetwork(network, "HTTP status: Red no disponible o API key sin acceso")
    ELSE IF resp.body = "html"
    THEN FailedNetwork(network, "API key no tiene acceso a esta red")
    ELSE IF resp.body = "null"
    THEN FailedNetwork(network,
             CaughtMessage(ErrorOf("Cannot read properties of null (reading 'error')")))
    ELSE IF "error" \in DOMAIN resp.data
    THEN FailedNetwork(network, RpcErrorMessage(resp.data.error))
    ELSE LET tokenBalances == TokenBalancesOf(resp.data)
         IN  IF \E i \in 1..Len(tokenBalances) :
                    ~BigIntParses(BalanceOrZero(tokenBalances[i]))
             THEN FailedNetwork(network,
                      CaughtMessage(ErrorOf("Cannot convert value to a BigInt")))
             ELSE IF \E i \in 1..Len(SelectTokens(tokenBalances)) :
                        "tokenBalance" \notin DOMAIN SelectTokens(tokenBalances)[i]
             THEN FailedNetwork(network,
                      CaughtMessage(ErrorOf("Cannot convert undefined to a BigInt")))
             ELSE [network |-> network.name, chainId |-> network.chainId,
                   success |-> TRUE,
                   tokens |-> [i \in 1..Len(SelectTokens(tokenBalances)) |->
                                  ToTokenBalance(SelectTokens(tokenBalances)[i])]]

\* the call building its URL from process.env without getAlchemyApiKey's test
BeforeFetch_KeyUnchecked(networkKey, apiKey) ==
    IF ~IsRegistered(networkKey) THEN Thrown(ErrorOf("Red no soportada"))
    ELSE [threw |-> FALSE]

\* what the call does before it reaches fetch(): Thrown(...) or "fetch"
BeforeFetch(networkKey, apiKey) ==
    IF ~IsRegistered(networkKey) THEN Thrown(ErrorOf("Red no soportada"))
    ELSE IF ApiKeyMissing(apiKey) THEN Thrown(ApiKeyError)
    ELSE [threw |-> FALSE]

\* the call with fetch() placed before the try block: a rejection escapes
getTokenBalancesForNetwork_FetchOutsideTry(networkKey, apiKey, resp) ==
    IF BeforeFetch(networkKey, apiKey).threw
    THEN BeforeFetch(networkKey, apiKey)
    ELSE IF resp.kind = "reject"
    THEN Thrown(resp.error)
    ELSE Returned(ProcessResponse(ALCHEMY_NETWORKS[networkKey], resp))

getTokenBalancesForNetwork(networkKey, apiKey, resp) ==
    IF BeforeFetch(networkKey, apiKey).threw
    THEN BeforeFetch(networkKey, apiKey)
    ELSE Returned(ProcessResponse(ALCHEMY_NETWORKS[networkKey], resp))

(***************************************************************************)
(* getTokenMetadata and formatTokenBalance                                 *)
(***************************************************************************)
\* a value that may be null: <<>> is null, <<v>> is the value v
Null == <<>>
Some(v) == <<v>>
IsNull(n) == Len(n) = 0

EmptyObject == <<>>

\* the object getTokenMetadata builds from data.result, with its defaults
\* (x || default: a missing, empty or zero property takes the default)
MetadataOf(data) ==
    LET res == IF "result" \in DOMAIN data THEN data.result ELSE EmptyObject
    IN  [name |-> IF "name" \in DOMAIN res /\ res.name # ""
                  THEN res.name ELSE "Unknown",
         symbol |-> IF "symbol" \in DOMAIN res /\ res.symbol # ""
                    THEN res.symbol ELSE "UNKNOWN",
         decimals |-> IF "decimals" \in DOMAIN res /\ res.decimals # 0
                      THEN res.decimals ELSE 18,
         logo |-> IF "logo" \in DOMAIN res /\ res.logo # ""
                  THEN Some(res.logo) ELSE Null]

\* The try block of getTokenMetadata once fetch() has settled.  response.ok
\* is not looked at: response.json() rejects on a non-JSON body, data.error
\* of a null body is a TypeError, and both land in the catch.
ProcessMetadata(resp) ==
    IF resp.kind = "reject" THEN Null
    ELSE IF resp.body \in {"html", "null"} THEN Null
    ELSE IF "error" \in DOMAIN resp.data THEN Null
    ELSE Some(MetadataOf(resp.data))

PadStart(s, n, c) ==
    IF Len(s) >= n THEN s ELSE [i \in 1..(n - Len(s)) |-> c] \o s

\* A bigint too wide for a machine integer is the sequence of its decimal
\* digits, most significant first, without leading zeros (0n is <<0>>).
DigitsOf(s) == [i \in 1..Len(s) |-> HexVal(s[i])]
CharsOf(ds) == [i \in 1..Len(ds) |-> DecChars[ds[i] + 1]]

RECURSIVE StripZeros(_)
StripZeros(ds) ==
    IF Len(ds) > 1 /\ ds[1] = 0 THEN StripZeros(Tail(ds)) ELSE ds

\* a < b for digit sequences of the same length
LessSameLen(a, b) ==
    \E i \in 1..Len(a) : a[i] < b[i] /\ \A j \in 1..(i - 1) : a[j] = b[j]

\* a < b
BigLess(a, b) ==
    \/ Len(a) < Len(b)
    \/ Len(a) = Len(b) /\ LessSameLen(a, b)

\* a - b, for a >= b: digit i borrows when the digits of a after i are less
\* than those of b after i
BigMinus(a, b) ==
    LET n == Len(a)
        bb == [i \in 1..(n - Len(b)) |-> 0] \o b
        borrow(i) == IF LessSameLen(SubSeq(a, i + 1, n), SubSeq(bb, i + 1, n))
                     THEN 1 ELSE 0
    IN  StripZeros([i \in 1..n |-> (a[i] - bb[i] - borrow(i) + 10) % 10])

\* how many times d goes into r (at most 9 in a long division), and the rest
RECURSIVE Goes(_, _)
Goes(r, d) ==
    IF BigLess(r, d) THEN [q |-> 0, r |-> r]
    ELSE LET g == Goes(BigMinus(r, d), d) IN [q |-> g.q + 1, r |-> g.r]

\* a / d and a % d by long division over the digits of a from digit k on,
\* with quotient q and remainder r so far
RECURSIVE LongDivision(_, _, _, _, _)
LongDivision(a, d, k, q, r) ==
    IF k > Len(a) THEN [q |-> StripZeros(q), r |-> r]
    ELSE LET g == Goes(StripZeros(Append(r, a[k])), d)
         IN  LongDivision(a, d, k + 1, Append(q, g.q), g.r)

BigDivMod(a, d) == LongDivision(a, d, 1, <<0>>, <<0>>)

\* the exact 10^n
TenToThe(n) == <<1>> \o [i \in 1..n |-> 0]

\* The doubles next to 10^23, which no double equals: 10^23 lies halfway
\* between them.
Below1e23 == DigitsOf(<<"9", "9", "9", "9", "9", "9", "9", "9", "9", "9", "9", "9",
                        "9", "9", "9", "9", "1", "6", "1", "1", "3", "9", "2">>)
Above1e23 == DigitsOf(<<"1", "0", "0", "0", "0", "0", "0", "0", "0", "0", "0", "0",
                        "0", "0", "0", "0", "0", "8", "3", "8", "8", "6", "0", "8">>)

\* BigInt(10 ** decimals): 10 ** decimals is a Number, the exact power of
\* ten up to 10^22 and an implementation-approximated double next to it for
\* decimals = 23, so the build decides which of the two it is.
DivisorsOf(decimals) ==
    IF decimals <= 22 THEN {TenToThe(decimals)} ELSE {Below1e23, Above1e23}

\* formatTokenBalance once the divisor is known
formatTokenBalanceBy(balance, decimals, divisor) ==
    LET balanceBigInt == StripZeros(DigitsOf(balance))
        integerPart == BigDivMod(balanceBigInt, divisor).q
        fractionalPart == BigDivMod(balanceBigInt, divisor).r
        fractionalString == PadStart(CharsOf(fractionalPart), decimals, "0")
        truncatedFractional ==
            SubSeq(fractionalString, 1,
                   IF Len(fractionalString) < 6 THEN Len(fractionalString) ELSE 6)
    IN  CharsOf(integerPart) \o <<".">> \o truncatedFractional

\* formatTokenBalance as the enrichment calls it: the divisor is the one
\* value of BigInt(10 ** decimals) for the decimals up to 22, and one of the
\* two above that (SpecFormat tries both)
formatTokenBalance(balance, decimals) ==
    formatTokenBalanceBy(balance, decimals,
                         CHOOSE divisor \in DivisorsOf(decimals) : TRUE)

\* the map callback that merges a metadata result into a token
EnrichToken(token, metadataResult) ==
    [contractAddress |-> token.contractAddress,
     balance |-> token.balance,
     metadata |-> metadataResult,
     formattedBalance |->
         IF ~IsNull(metadataResult) /\ metadataResult[1].decimals # 0
         THEN formatTokenBalance(token.balance, metadataResult[1].decimals)
         ELSE token.balance]

\* the enrichment with tokens whose lookup failed filtered out
EnrichTokens_DropsUnknown(tokens, metadataResults) ==
    LET kept == SelectSeq([x \in 1..Len(tokens) |-> x],
                          LAMBDA x : ~IsNull(metadataResults[x]))
    IN  [y \in 1..Len(kept) |-> EnrichToken(tokens[kept[y]], metadataResults[kept[y]])]

\* networkData.tokens.map(...) over the resolved metadataResults
EnrichTokens(tokens, metadataResults) ==
    [x \in 1..Len(tokens) |-> EnrichToken(tokens[x], metadataResults[x])]

(***************************************************************************)
(* getAllTokenBalances and getAllTokenBalancesWithMetadata                 *)
(***************************************************************************)
\* the {40} of the address pattern
AddressHexLen == 40

\* the pattern without its closing anchor: /^0x[a-fA-F0-9]{40}/
IsValidAddress_Unanchored(a) ==
    /\ Len(a) >= 2 + AddressHexLen
    /\ a[1] = "0"
    /\ a[2] = "x"
    /\ \A i \in 3..(2 + AddressHexLen) : IsHexChar(a[i])

\* /^0x[a-fA-F0-9]{40}$/.test(walletAddress)
IsValidAddress(a) ==
    /\ Len(a) = 2 + AddressHexLen
    /\ a[1] = "0"
    /\ a[2] = "x"
    /\ \A i \in 3..Len(a) : IsHexChar(a[i])

\* a promise's slot in the array handed to Promise.all
PendingSlot == [pending |-> TRUE]
SettledSlot(v) == [pending |-> FALSE, value |-> v]
Unsettled == [pending |-> TRUE]
NoResult == [none |-> TRUE]

KeySet(keys) == {keys[i] : i \in 1..Len(keys)}

\* every key filed under results[0]
IndexOfKey_First(keys, k) == 1

\* the index forEach hands over with networkKey
IndexOfKey(keys, k) == CHOOSE i \in 1..Len(keys) : keys[i] = k

RECURSIVE TotalTokens(_)
TotalTokens(results) ==
    IF results = <<>> THEN 0
    ELSE Len(Head(results).tokens) + TotalTokens(Tail(results))

\* the result with totalNetworks counting the networks that answered
BuildResult_CountsAnswered(walletAddress, keys, results) ==
    [walletAddress |-> walletAddress,
     summary |->
         [totalNetworks |-> Cardinality({i \in 1..Len(results) : results[i].success}),
          successfulNetworks |-> Cardinality({i \in 1..Len(results) : results[i].success}),
          totalTokensFound |-> TotalTokens(results)],
     balances |-> [k \in KeySet(keys) |-> results[IndexOfKey(keys, k)]]]

\* what getAllTokenBalances returns once every network promise has resolved
\* (timestamp, the wall-clock time of the return, is left out)
BuildResult(walletAddress, keys, results) ==
    [walletAddress |-> walletAddress,
     summary |->
         [totalNetworks |-> Len(keys),
          successfulNetworks |-> Cardinality({i \in 1..Len(results) : results[i].success}),
          totalTokensFound |-> TotalTokens(results)],
     balances |-> [k \in KeySet(keys) |-> results[IndexOfKey(keys, k)]]]

BalanceRequest(c, key) ==
    [call |-> c, method |-> "alchemy_getTokenBalances", network |-> key]
MetadataRequest(c, key, t, token) ==
    [call |-> c, method |-> "alchemy_getTokenMetadata", network |-> key,
     token |-> t, contract |-> token.contractAddress]

SettledCall(call, outcome) ==
    [call EXCEPT !.phase = "settled", !.outcome = outcome]

\* index of the first network at or after `from` that the enrichment loop
\* does not skip (success with at least one token), 0 when there is none
NextEnrichable(basic, keys, from) ==
    LET cand == {i \in from..Len(keys) :
                    /\ basic.balances[keys[i]].success
                    /\ Len(basic.balances[keys[i]].tokens) > 0}
    IN  IF cand = {} THEN 0 ELSE CHOOSE i \in cand : \A j \in cand : i <= j

\* the for loop of getAllTokenBalancesWithMetadata from network `from` on:
\* it starts the metadata requests of the next network to enrich and awaits
\* them, or returns basicBalances
EnrichFrom(c, call, keys, from) ==
    LET i == NextEnrichable(call.basic, keys, from)
    IN  IF i = 0
        THEN [call |-> SettledCall(call, Returned(call.basic)), reqs |-> {}]
        ELSE LET tokens == call.basic.balances[keys[i]].tokens
             IN  [call |-> [call EXCEPT !.phase = "metadata", !.cursor = i,
                                        !.meta = [t \in 1..Len(tokens) |-> PendingSlot]],
                  reqs |-> {MetadataRequest(c, keys[i], t, tokens[t]) :
                               t \in 1..Len(tokens)}]

\* the continuation that enriches whichever of the two functions was called
AfterBalances_AlwaysEnriches(c, call, keys) ==
    EnrichFrom(c, [call EXCEPT !.basic =
                      BuildResult(call.address, keys,
                                  [i \in 1..Len(keys) |-> call.net[i].value])],
               keys, 1)

\* the continuation of Promise.all over the network promises
AfterBalances(c, call, keys) ==
    LET basic == BuildResult(call.address, keys,
                             [i \in 1..Len(keys) |-> call.net[i].value])
    IN  IF call.withMetadata
        THEN EnrichFrom(c, [call EXCEPT !.basic = basic], keys, 1)
        ELSE [call |-> SettledCall([call EXCEPT !.basic = basic], Returned(basic)),
              reqs |-> {}]

\* the continuation that sends a failed balance request once more
OnBalanceResponse_RetriesOnce(c, call, keys, i, resp) ==
    LET got == [call EXCEPT !.net[i] =
                   SettledSlot(ProcessResponse(ALCHEMY_NETWORKS[keys[i]], resp))]
    IN  IF ~got.net[i].value.success
           /\ CopiesIn(BalanceRequest(c, keys[i]), requests) < 2
        THEN [call |-> call, reqs |-> {BalanceRequest(c, keys[i])}]
        ELSE IF \E j \in 1..Len(keys) : got.net[j].pending
        THEN [call |-> got, reqs |-> {}]
        ELSE AfterBalances(c, got, keys)

\* the balance request of network keys[i] settles with resp
OnBalanceResponse(c, call, keys, i, resp) ==
    LET got == [call EXCEPT !.net[i] =
                   SettledSlot(ProcessResponse(ALCHEMY_NETWORKS[keys[i]], resp))]
    IN  IF \E j \in 1..Len(keys) : got.net[j].pending
        THEN [call |-> got, reqs |-> {}]
        ELSE AfterBalances(c, got, keys)

\* the metadata request of token t of the network being enriched settles
OnMetadataResponse(c, call, keys, t, resp) ==
    LET got == [call EXCEPT !.meta[t] = SettledSlot(ProcessMetadata(resp))]
        key == keys[call.cursor]
    IN  IF \E u \in 1..Len(got.meta) : got.meta[u].pending
        THEN [call |-> got, reqs |-> {}]
        ELSE EnrichFrom(c,
                 [got EXCEPT !.basic.balances[key].tokens =
                                 EnrichTokens(@, [x \in 1..Len(got.meta) |->
                                                     got.meta[x].value]),
                             !.meta = <<>>],
                 keys, call.cursor + 1)

NewCall(address, withMetadata) ==
    [address |-> address, withMetadata |-> withMetadata, phase |-> "balances",
     net |-> <<>>, cursor |-> 0, meta |-> <<>>, basic |-> NoResult,
     outcome |-> Unsettled]

\* The synchronous part of a call: the two address checks, then one
\* getTokenBalancesForNetwork per key, each running up to its fetch().  A call
\* that throws before fetch() rejects its promise, and Promise.all rejects
\* with the first rejection.
StartCall(c, address, withMetadata, apiKey, keys) ==
    LET call == NewCall(address, withMetadata)
        throwing == {i \in 1..Len(keys) : BeforeFetch(keys[i], apiKey).threw}
        fetched == {BalanceRequest(c, keys[i]) : i \in (1..Len(keys)) \ throwing}
    IN  IF address = <<>>
        THEN [call |-> SettledCall(call, Thrown(ErrorOf("Se requiere una direccion de wallet"))),
              reqs |-> {}]
        ELSE IF ~IsValidAddress(address)
        THEN [call |-> SettledCall(call, Thrown(ErrorOf("Formato de direccion de wallet invalido"))),
              reqs |-> {}]
        ELSE IF throwing # {}
        THEN [call |-> SettledCall(call,
                  BeforeFetch(keys[CHOOSE i \in throwing : \A j \in throwing : i <= j],
                              apiKey)),
              reqs |-> fetched]
        ELSE [call |-> [call EXCEPT !.net = [i \in 1..Len(keys) |-> PendingSlot]],
              reqs |-> fetched]

(***************************************************************************)
(* useMultiWalletTokenBalances                                             *)
(***************************************************************************)
Settled(out) == "threw" \in DOMAIN out
ReturnedValue(out) == Settled(out) /\ ~out.threw

\* the catch clause of the per-wallet task
WalletErrorMessage(e) == IF e.isError THEN e.message ELSE "Error desconocido"

\* the catch clause returning the caught value's `error` property, which an
\* Error does not have
WalletEntry_ErrorLost(wallet, outcome) ==
    [walletAddress |-> wallet.address, label |-> wallet.label,
     result |-> IF outcome.threw THEN Null ELSE Some(outcome.value),
     error |-> Null]

\* what the per-wallet task returns for a settled call
WalletEntry(wallet, outcome) ==
    IF outcome.threw
    THEN [walletAddress |-> wallet.address, label |-> wallet.label,
          result |-> Null, error |-> Some(WalletErrorMessage(outcome.error))]
    ELSE [walletAddress |-> wallet.address, label |-> wallet.label,
          result |-> Some(outcome.value), error |-> Null]

\* the tasks without their own try/catch: one rejection rejects Promise.all,
\* setAllBalances(results) is skipped and allBalances stays []
ScanResults_NoPerWalletCatch(scan, cls) ==
    IF \E i \in 1..Len(scan.calls) : cls[scan.calls[i]].outcome.threw
    THEN <<>>
    ELSE [i \in 1..Len(scan.wallets) |->
             WalletEntry(scan.wallets[i], cls[scan.calls[i]].outcome)]

\* the entries pushed as the tasks settle, in completion order
ScanResults_CompletionOrder(scan, cls) ==
    [i \in 1..Len(scan.order) |->
        WalletEntry(scan.wallets[CHOOSE j \in 1..Len(scan.calls) :
                                     scan.calls[j] = scan.order[i]],
                    cls[scan.order[i]].outcome)]

\* the array Promise.all resolves with: one entry per wallet, in input order
ScanResults(scan, cls) ==
    [i \in 1..Len(scan.wallets) |->
        WalletEntry(scan.wallets[i], cls[scan.calls[i]].outcome)]

ScanSettled(scan, cls) ==
    \A i \in 1..Len(scan.calls) : Settled(cls[scan.calls[i]].outcome)

\* the continuation with setIsLoading(false) after setAllBalances(results)
\* in place of the finally clause, and tasks that let a rejection through
CompleteScans_NoFinally(h, cls) ==
    LET fin == {s \in 1..Len(h.scans) :
                   ~h.scans[s].done /\ ScanSettled(h.scans[s], cls)}
    IN  IF fin = {} THEN h
        ELSE LET s == CHOOSE s \in fin : TRUE
                 rejected == \E i \in 1..Len(h.scans[s].calls) :
                                 cls[h.scans[s].calls[i]].outcome.threw
             IN  [allBalances |-> IF rejected THEN h.allBalances
                                  ELSE ScanResults(h.scans[s], cls),
                  isLoading |-> IF rejected THEN h.isLoading ELSE FALSE,
                  scans |-> [h.scans EXCEPT ![s].done = TRUE]]

\* the continuation with setAllBalances(prev => [...prev, ...results])
CompleteScans_Appends(h, cls) ==
    LET fin == {s \in 1..Len(h.scans) :
                   ~h.scans[s].done /\ ScanSettled(h.scans[s], cls)}
    IN  IF fin = {} THEN h
        ELSE LET s == CHOOSE s \in fin : TRUE
             IN  [allBalances |-> h.allBalances \o ScanResults(h.scans[s], cls),
                  isLoading |-> FALSE,
                  scans |-> [h.scans EXCEPT ![s].done = TRUE]]

\* The continuation of searchAllWallets: once every per-wallet task of an
\* invocation has settled, setAllBalances(results) and, in the finally
\* clause, setIsLoading(false).  A call belongs to one invocation, so at
\* most one invocation finishes at a time.
CompleteScans(h, cls) ==
    LET fin == {s \in 1..Len(h.scans) :
                   ~h.scans[s].done /\ ScanSettled(h.scans[s], cls)}
    IN  IF fin = {} THEN h
        ELSE LET s == CHOOSE s \in fin : TRUE
             IN  [allBalances |-> ScanResults(h.scans[s], cls),
                  isLoading |-> FALSE,
                  scans |-> [h.scans EXCEPT ![s].done = TRUE]]

RECURSIVE SumTokensFound(_)
SumTokensFound(entries) ==
    IF entries = <<>> THEN 0
    ELSE (IF IsNull(Head(entries).result) THEN 0
          ELSE Head(entries).result[1].summary.totalTokensFound)
         + SumTokensFound(Tail(entries))

\* the summary filtering on wb.result !== undefined, which null passes
Summary_UndefinedCheck(entries) ==
    [totalWallets |-> Len(entries),
     totalTokens |-> SumTokensFound(entries),
     successfulWallets |-> Len(entries)]

\* the summary the hook computes on every render
Summary(entries) ==
    [totalWallets |-> Len(entries),
     totalTokens |-> SumTokensFound(entries),
     successfulWallets |->
         Cardinality({i \in 1..Len(entries) : ~IsNull(entries[i].result)})]

(***************************************************************************)
(* Responses the provider can give to alchemy_getTokenBalances             *)
(***************************************************************************)
ContractAddresses == {"0xTokenA", "0xTokenB"}

\* tokenBalance strings: "", "0x0", "0x1", "0x2A", "12", and "0x", "0xg"
\* which BigInt cannot read
BalanceStrings ==
    {<<>>, <<"0", "x", "0">>, <<"0", "x", "1">>, <<"0", "x", "2", "A">>,
     <<"1", "2">>, <<"0", "x">>, <<"0", "x", "g">>}

TokenEntries ==
    [contractAddress : ContractAddresses]
        \cup [contractAddress : ContractAddresses, tokenBalance : BalanceStrings]

TokenLists == UNION {[1..n -> TokenEntries] : n \in 0..MaxTokens}

RpcErrors == {[message |-> "rate limited"], [message |-> ""], [code |-> "limit"]}

FailureResponses ==
    {[kind |-> "reject", error |-> ErrorOf("Failed to fetch")],
     [kind |-> "reject", error |-> ErrorOf("")],
     [kind |-> "reject", error |-> NonError],
     [kind |-> "http", ok |-> FALSE],
     [kind |-> "http", ok |-> TRUE, body |-> "html"],
     [kind |-> "http", ok |-> TRUE, body |-> "null"]}
        \cup {[kind |-> "http", ok |-> TRUE, body |-> "object", data |-> [error |-> e]] :
                 e \in RpcErrors}

ResultResponses ==
    {[kind |-> "http", ok |-> TRUE, body |-> "object", data |-> d] :
        d \in {EmptyObject, [result |-> EmptyObject]}
                 \cup {[result |-> [tokenBalances |-> l]] : l \in TokenLists}}

Responses == FailureResponses \cup ResultResponses

\* network keys a caller may pass: the registry's and one that is not in it
CallerKeys == {NetworkOrder[i] : i \in 1..Len(NetworkOrder)} \cup {"solana"}

ApiKeys == {"", "key"}

\* native balances the wallet may hold: none, 5 wei
NativeBalances == {<<"0", "x", "0">>, <<"0", "x", "5">>}

\* formatTokenBalance has not been called
FormatIdle ==
    /\ fmtBalance = <<"0">>
    /\ fmtDecimals = 1
    /\ fmtOut = NotCalled

\* neither useTokenBalances nor useMultipleWallets is mounted
HooksUnmounted ==
    /\ useAccount = [address |-> Null, isConnected |-> FALSE]
    /\ usePrivy = [ready |-> FALSE, authenticated |-> FALSE]
    /\ privyWalletsRaw = <<>>
    /\ privyWallets = <<>>
    /\ autoFetch = TRUE
    /\ useTokenBalances = [balances |-> Null, isLoading |-> FALSE, error |-> Null]
    /\ fetches = <<>>
    /\ effectsDue = {}

(***************************************************************************)
(* SpecNetwork: one call of getTokenBalancesForNetwork on any input        *)
(***************************************************************************)
InitNetwork ==
    /\ HooksUnmounted
    /\ NEXT_PUBLIC_ALCHEMY_API_KEY \in ApiKeys
    /\ networkKeys = NetworkOrder
    /\ fnKey \in CallerKeys
    /\ fnResp \in Responses
    /\ fnOut = NotCalled
    /\ nativeBalance \in NativeBalances
    /\ FormatIdle
    /\ calls = <<>>
    /\ requests = EmptyBag
    /\ delivered = <<>>
    /\ includeMetadata = TRUE
    /\ allBalances = <<>>
    /\ isLoading = FALSE
    /\ scans = <<>>
    /\ lastOp = [op |-> "none"]

CallNetwork ==
    /\ fnOut = NotCalled
    /\ fnOut' = getTokenBalancesForNetwork(fnKey, NEXT_PUBLIC_ALCHEMY_API_KEY, fnResp)
    /\ lastOp' = [op |-> "getTokenBalancesForNetwork", issued |-> 0]
    /\ UNCHANGED <<reactVars, walletVars, fetchVars, envVars, fmtVars, fnKey, fnResp, callVars, hookVars>>

NextNetwork == CallNetwork

SpecNetwork == InitNetwork /\ [][NextNetwork]_vars

(***************************************************************************)
(* Inputs of the concurrent specifications                                 *)
(***************************************************************************)
Repeat(c, n) == [i \in 1..n |-> c]

AddressA == <<"0", "x">> \o Repeat("a", AddressHexLen)
AddressB == <<"0", "x">> \o [i \in 1..AddressHexLen |-> IF i % 2 = 0 THEN "9" ELSE "F"]

\* "", "bad", one digit short, one digit long, "0X" prefix, a non-hex digit
InvalidAddresses ==
    {<<>>,
     <<"b", "a", "d">>,
     <<"0", "x">> \o Repeat("a", AddressHexLen - 1),
     <<"0", "x">> \o Repeat("a", AddressHexLen + 1),
     <<"0", "X">> \o Repeat("a", AddressHexLen),
     <<"0", "x">> \o Repeat("a", AddressHexLen - 1) \o <<"g">>}

\* addresses handed to a direct call
AddressSamples == {AddressA} \cup InvalidAddresses

Entry(contract, amount) == [contractAddress |-> contract, tokenBalance |-> amount]
ResultOf(entries) ==
    [kind |-> "http", ok |-> TRUE, body |-> "object",
     data |-> [result |-> [tokenBalances |-> entries]]]

RejectedFetch == [kind |-> "reject", error |-> ErrorOf("Failed to fetch")]
NotOkStatus == [kind |-> "http", ok |-> FALSE]
\* a list with one zero and one positive amount
OneTokenResult ==
    ResultOf(<<Entry("0xTokenA", <<"0", "x", "0">>),
               Entry("0xTokenB", <<"0", "x", "2", "A">>)>>)
\* a list with a zero amount between two positive ones
TwoTokenResult ==
    ResultOf(<<Entry("0xTokenB", <<"0", "x", "1">>),
               Entry("0xTokenC", <<"0", "x", "0">>),
               Entry("0xTokenA", <<"0", "x", "2", "A">>)>>)

MetadataRpcError ==
    [kind |-> "http", ok |-> TRUE, body |-> "object",
     data |-> [error |-> [message |-> "not found"]]]
MetadataResult ==
    [kind |-> "http", ok |-> TRUE, body |-> "object",
     data |-> [result |-> [name |-> "USD Coin", symbol |-> "USDC",
                           decimals |-> 6, logo |-> "https://logo"]]]

\* responses drawn in SpecScan
DirectResponses == {NotOkStatus, TwoTokenResult}
DirectMetadataResponses == {RejectedFetch, MetadataResult}

\* responses drawn in Spec
HookResponses == {RejectedFetch, OneTokenResult}
HookMetadataResponses == {MetadataRpcError, MetadataResult}

Wallets ==
    {[address |-> AddressA, label |-> "Farcaster"],
     [address |-> AddressB, label |-> "Privy 1"],
     [address |-> <<"b", "a", "d">>, label |-> "X"]}

\* lists of distinct wallets
WalletLists ==
    {l \in UNION {[1..n -> Wallets] : n \in 0..MaxWallets} :
        \A i, j \in 1..Len(l) : i # j => l[i] # l[j]}

(***************************************************************************)
(* Actions of the concurrent specifications                                *)
(***************************************************************************)
\* the response a request got is kept with the request
Deliver(d, request, resp) ==
    [r \in DOMAIN d \cup {request} |-> IF r = request THEN resp ELSE d[r]]

\* the hook's state once call c has moved to `call`: an invocation notes the
\* order in which its per-wallet tasks settle
HookAfter(c, call) ==
    [allBalances |-> allBalances,
     isLoading |-> isLoading,
     scans |-> [s \in 1..Len(scans) |->
                   IF Settled(call.outcome) /\ \E i \in 1..Len(scans[s].calls) :
                                                  scans[s].calls[i] = c
                   THEN [scans[s] EXCEPT !.order = Append(@, c)]
                   ELSE scans[s]]]

\* the invocations that the step leading to hook state h completes
CompletedBy(h) ==
    {s \in 1..Len(h.scans) :
        h.scans[s].done /\ (s \in 1..Len(scans) => ~scans[s].done)}

\* a caller invokes getAllTokenBalances (withMetadata = FALSE) or
\* getAllTokenBalancesWithMetadata (withMetadata = TRUE) directly
CallDirect(address, withMetadata) ==
    /\ calls = <<>>
    /\ LET st == StartCall(1, address, withMetadata,
                           NEXT_PUBLIC_ALCHEMY_API_KEY, networkKeys)
       IN  /\ calls' = <<st.call>>
           /\ requests' = requests (+) SetToBag(st.reqs)
           /\ lastOp' = [op |-> "getAllTokenBalances", issued |-> Cardinality(st.reqs)]
    /\ UNCHANGED delivered
    /\ UNCHANGED <<reactVars, walletVars, fetchVars, envVars, fmtVars, fnVars, hookVars>>

\* searchAllWallets(wallets), up to the point where it has nothing left to
\* run: every per-wallet task has run to its first pending fetch, or has
\* failed before any fetch.  An invocation notes the allBalances it found
\* and the invocations that had not completed when it started.
searchAllWallets(wallets) ==
    /\ UNCHANGED delivered
    /\ IF Len(wallets) = 0
       THEN /\ lastOp' = [op |-> "searchAllWallets", wallets |-> wallets, issued |-> 0,
                           completed |-> {}]
            /\ UNCHANGED <<calls, requests, allBalances, isLoading, scans>>
       ELSE LET base == Len(calls)
                st == [i \in 1..Len(wallets) |->
                          StartCall(base + i, wallets[i].address, includeMetadata,
                                    NEXT_PUBLIC_ALCHEMY_API_KEY, networkKeys)]
                cls == calls \o [i \in 1..Len(wallets) |-> st[i].call]
                scan == [wallets |-> wallets,
                         calls |-> [i \in 1..Len(wallets) |-> base + i],
                         order |-> SelectSeq([i \in 1..Len(wallets) |-> base + i],
                                             LAMBDA c : Settled(cls[c].outcome)),
                         before |-> allBalances,
                         during |-> {t \in 1..Len(scans) : ~scans[t].done},
                         done |-> FALSE]
                issued == UNION {st[i].reqs : i \in 1..Len(wallets)}
                h == CompleteScans([allBalances |-> <<>>, isLoading |-> TRUE,
                                    scans |-> Append(scans, scan)], cls)
            IN  /\ calls' = cls
                /\ requests' = requests (+) SetToBag(issued)
                /\ lastOp' = [op |-> "searchAllWallets", wallets |-> wallets,
                              issued |-> Cardinality(issued),
                              completed |-> CompletedBy(h)]
                /\ allBalances' = h.allBalances
                /\ isLoading' = h.isLoading
                /\ scans' = h.scans
    /\ UNCHANGED <<reactVars, walletVars, fetchVars, envVars, fmtVars, fnVars, includeMetadata>>

\* searchAllWallets in a behaviour that holds one invocation with a
\* non-empty list, and any number with the empty list, at any time
SearchAllWallets(wallets) ==
    /\ Len(wallets) > 0 => scans = <<>>
    /\ searchAllWallets(wallets)

\* searchAllWallets in a behaviour of up to MaxScans invocations with a
\* non-empty list, each at any time: after or during the ones before it
SearchAgain(wallets) ==
    /\ Len(wallets) > 0 => Len(scans) < MaxScans
    /\ searchAllWallets(wallets)

\* the balance request of call c for network networkKeys[i] settles
SettleBalance(c, i, resp) ==
    /\ c \in 1..Len(calls)
    /\ calls[c].phase = "balances"
    /\ i \in 1..Len(calls[c].net)
    /\ calls[c].net[i].pending
    /\ LET st == OnBalanceResponse(c, calls[c], networkKeys, i, resp)
           cls == [calls EXCEPT ![c] = st.call]
           h == CompleteScans(HookAfter(c, st.call), cls)
       IN  /\ calls' = cls
           /\ requests' = requests (+) SetToBag(st.reqs)
           /\ allBalances' = h.allBalances
           /\ isLoading' = h.isLoading
           /\ scans' = h.scans
           /\ lastOp' = [op |-> "response", issued |-> Cardinality(st.reqs),
                         completed |-> CompletedBy(h)]
    /\ delivered' = Deliver(delivered, BalanceRequest(c, networkKeys[i]), resp)
    /\ UNCHANGED <<reactVars, walletVars, fetchVars, envVars, fmtVars, fnVars, includeMetadata>>

\* the metadata request of call c for token t of the network it is
\* enriching settles
SettleMetadata(c, t, resp) ==
    /\ c \in 1..Len(calls)
    /\ calls[c].phase = "metadata"
    /\ t \in 1..Len(calls[c].meta)
    /\ calls[c].meta[t].pending
    /\ LET st == OnMetadataResponse(c, calls[c], networkKeys, t, resp)
           cls == [calls EXCEPT ![c] = st.call]
           h == CompleteScans(HookAfter(c, st.call), cls)
       IN  /\ calls' = cls
           /\ requests' = requests (+) SetToBag(st.reqs)
           /\ allBalances' = h.allBalances
           /\ isLoading' = h.isLoading
           /\ scans' = h.scans
           /\ lastOp' = [op |-> "response", issued |-> Cardinality(st.reqs),
                         completed |-> CompletedBy(h)]
    /\ delivered' =
           Deliver(delivered,
                   MetadataRequest(c, networkKeys[calls[c].cursor], t,
                       calls[c].basic.balances[networkKeys[calls[c].cursor]].tokens[t]),
                   resp)
    /\ UNCHANGED <<reactVars, walletVars, fetchVars, envVars, fmtVars, fnVars, includeMetadata>>

Settle(balanceResponses, metadataResponses) ==
    \/ \E c \in 1..Len(calls), i \in 1..Len(networkKeys), resp \in balanceResponses :
          SettleBalance(c, i, resp)
    \/ \E c \in 1..Len(calls) :
          \E t \in 1..Len(calls[c].meta), resp \in metadataResponses :
              SettleMetadata(c, t, resp)

\* nothing has been called and no request has been issued
CallsIdle ==
    /\ nativeBalance = <<"0", "x", "0">>
    /\ FormatIdle
    /\ fnKey = "base"
    /\ fnResp = [kind |-> "http", ok |-> FALSE]
    /\ fnOut = NotCalled
    /\ calls = <<>>
    /\ requests = EmptyBag
    /\ delivered = <<>>
    /\ allBalances = <<>>
    /\ isLoading = FALSE
    /\ scans = <<>>
    /\ lastOp = [op |-> "none"]

IdleInit ==
    /\ CallsIdle
    /\ HooksUnmounted

(***************************************************************************)
(* SpecScan: one direct call of getAllTokenBalances[WithMetadata] over the *)
(* whole registry                                                          *)
(***************************************************************************)
InitScan ==
    /\ NEXT_PUBLIC_ALCHEMY_API_KEY \in ApiKeys
    /\ networkKeys = NetworkOrder
    /\ includeMetadata = FALSE
    /\ IdleInit

NextScan ==
    \/ \E a \in AddressSamples, m \in BOOLEAN : CallDirect(a, m)
    \/ Settle(DirectResponses, DirectMetadataResponses)

SpecScan == InitScan /\ [][NextScan]_vars

(***************************************************************************)
(* SpecEnrich: one call of getAllTokenBalancesWithMetadata over the first  *)
(* NumNetworks networks, with every kind of answer to a metadata lookup    *)
(***************************************************************************)
\* answers to alchemy_getTokenMetadata: a status outside 2xx with an HTML
\* body, with a JSON body that has no error property, with a JSON-RPC error
\* body; a 200 with an HTML body; a result without name, symbol and decimals
NotOkHtml == [kind |-> "http", ok |-> FALSE, body |-> "html"]
NotOkJson ==
    [kind |-> "http", ok |-> FALSE, body |-> "object",
     data |-> [message |-> "Forbidden"]]
NotOkRpcError ==
    [kind |-> "http", ok |-> FALSE, body |-> "object",
     data |-> [error |-> [message |-> "Must be authenticated"]]]
OkHtml == [kind |-> "http", ok |-> TRUE, body |-> "html"]
BareMetadataResult ==
    [kind |-> "http", ok |-> TRUE, body |-> "object",
     data |-> [result |-> [logo |-> ""]]]

EnrichMetadataResponses ==
    {RejectedFetch, NotOkHtml, NotOkJson, NotOkRpcError, OkHtml, MetadataRpcError,
     MetadataResult, BareMetadataResult}

InitEnrich ==
    /\ NEXT_PUBLIC_ALCHEMY_API_KEY = "key"
    /\ networkKeys = SubSeq(NetworkOrder, 1, NumNetworks)
    /\ includeMetadata = TRUE
    /\ IdleInit

NextEnrich ==
    \/ CallDirect(AddressA, TRUE)
    \/ Settle(DirectResponses, EnrichMetadataResponses)

SpecEnrich == InitEnrich /\ [][NextEnrich]_vars

(***************************************************************************)
(* Spec: the useMultiWalletTokenBalances hook, mounted and driven by       *)
(* searchAllWallets                                                        *)
(***************************************************************************)
Init ==
    /\ NEXT_PUBLIC_ALCHEMY_API_KEY \in ApiKeys
    /\ networkKeys = SubSeq(NetworkOrder, 1, NumNetworks)
    /\ includeMetadata \in BOOLEAN
    /\ IdleInit

Next ==
    \/ \E ws \in WalletLists : SearchAllWallets(ws)
    \/ Settle(HookResponses, HookMetadataResponses)

Spec == Init /\ [][Next]_vars

\* an HTTP request is in flight: exactly when a Settle step is possible
RequestPending ==
    \E c \in 1..Len(calls) :
        \/ /\ calls[c].phase = "balances"
           /\ \E i \in 1..Len(calls[c].net) : calls[c].net[i].pending
        \/ /\ calls[c].phase = "metadata"
           /\ \E t \in 1..Len(calls[c].meta) : calls[c].meta[t].pending

\* The hook where every HTTP request that is pending eventually settles:
\* weak fairness of Settle, WF_vars(Settle(HookResponses,
\* HookMetadataResponses)), written with RequestPending for ENABLED.
SpecLive ==
    Spec /\ ([]<>(~RequestPending)
                \/ []<><<Settle(HookResponses, HookMetadataResponses)>>_vars)

(***************************************************************************)
(* SpecRescan: the hook driven by several searchAllWallets invocations, on *)
(* a build with the first network of the registry, with metadata           *)
(***************************************************************************)
\* the lists handed to the invocations: one good wallet; another good wallet
\* and a malformed one; none
RescanLists ==
    {<<[address |-> AddressA, label |-> "Farcaster"]>>,
     <<[address |-> AddressB, label |-> "Privy 1"],
       [address |-> <<"b", "a", "d">>, label |-> "X"]>>,
     <<>>}

InitRescan ==
    /\ NEXT_PUBLIC_ALCHEMY_API_KEY = "key"
    /\ networkKeys = SubSeq(NetworkOrder, 1, 1)
    /\ includeMetadata = TRUE
    /\ IdleInit

NextRescan ==
    \/ \E ws \in RescanLists : SearchAgain(ws)
    \/ Settle(HookResponses, HookMetadataResponses)

SpecRescan == InitRescan /\ [][NextRescan]_vars

(***************************************************************************)
(* SpecFormat: one call of formatTokenBalance                              *)
(***************************************************************************)
\* balances: 0, 5, 500, 999999, 1234560, 1234567, 10^18, 2*10^18 - 1,
\* 10^23 - 1, 10^23, 5*10^23 + 123, and the double below 10^23
FormatBalances ==
    {<<"0">>, <<"5">>, <<"5", "0", "0">>, Repeat("9", 6),
     <<"1", "2", "3", "4", "5", "6", "0">>, <<"1", "2", "3", "4", "5", "6", "7">>,
     <<"1">> \o Repeat("0", 18), <<"1">> \o Repeat("9", 18),
     Repeat("9", 23), <<"1">> \o Repeat("0", 23),
     <<"5">> \o Repeat("0", 20) \o <<"1", "2", "3">>,
     CharsOf(Below1e23)}

FormatDecimals == {1, 3, 6, 7, 18, 22, 23}

InitFormat ==
    /\ HooksUnmounted
    /\ NEXT_PUBLIC_ALCHEMY_API_KEY = "key"
    /\ networkKeys = NetworkOrder
    /\ nativeBalance = <<"0", "x", "0">>
    /\ fmtBalance \in FormatBalances
    /\ fmtDecimals \in FormatDecimals
    /\ fmtOut = NotCalled
    /\ fnKey = "base"
    /\ fnResp = [kind |-> "http", ok |-> FALSE]
    /\ fnOut = NotCalled
    /\ calls = <<>>
    /\ requests = EmptyBag
    /\ delivered = <<>>
    /\ includeMetadata = TRUE
    /\ allBalances = <<>>
    /\ isLoading = FALSE
    /\ scans = <<>>
    /\ lastOp = [op |-> "none"]

\* formatTokenBalance(fmtBalance, fmtDecimals) runs, the build deciding the
\* double that 10 ** decimals is
CallFormat ==
    /\ fmtOut = NotCalled
    /\ \E divisor \in DivisorsOf(fmtDecimals) :
           fmtOut' = Returned(formatTokenBalanceBy(fmtBalance, fmtDecimals, divisor))
    /\ lastOp' = [op |-> "formatTokenBalance", issued |-> 0]
    /\ UNCHANGED <<reactVars, walletVars, fetchVars, envVars, fmtBalance, fmtDecimals, fnVars, callVars, hookVars>>

NextFormat == CallFormat

SpecFormat == InitFormat /\ [][NextFormat]_vars

(***************************************************************************)
(* useMultipleWallets                                                      *)
(***************************************************************************)
\* longest wallet list useWallets() returns
MaxPrivyWallets == 2

\* toLowerCase on the characters an address is made of
LowerChar(c) ==
    IF \E i \in 1..Len(UpperHex) : UpperHex[i] = c
    THEN LowerHex[CHOOSE i \in 1..Len(UpperHex) : UpperHex[i] = c]
    ELSE IF c = "X" THEN "x" ELSE c

normalizeAddress(address) == [i \in 1..Len(address) |-> LowerChar(address[i])]

\* the entry the map callback builds for the wallet at (0-based) index - 1
PrivyEntry(w, index) ==
    [address |-> w.address,
     label |-> IF w.walletClientType = "privy" THEN "Embedded"
               ELSE "Privy " \o ToString(index),
     source |-> "privy",
     walletClientType |-> w.walletClientType]

\* the two filters and the map of the effect
ProcessPrivyWallets(farcasterAddress, raw) ==
    LET withAddress == SelectSeq(raw, LAMBDA w : w.address # <<>>)
        kept == SelectSeq(withAddress,
                    LAMBDA w : IsNull(farcasterAddress)
                                   \/ normalizeAddress(w.address)
                                          # normalizeAddress(farcasterAddress[1]))
    IN  [i \in 1..Len(kept) |-> PrivyEntry(kept[i], i)]

\* what the effect hands to setPrivyWallets
PrivyWalletsEffect(farcasterAddress, privy, raw) ==
    IF privy.ready /\ privy.authenticated
    THEN ProcessPrivyWallets(farcasterAddress, raw)
    ELSE <<>>

\* the wallets list a render returns: the Farcaster wallet, if connected,
\* then the privyWallets state
ExposedWallets ==
    (IF IsNull(useAccount.address) THEN <<>>
     ELSE <<[address |-> useAccount.address[1], label |-> "Farcaster",
             source |-> "farcaster"]>>)
        \o privyWallets

\* the same address in upper-case hex digits
AddressAUpper == <<"0", "x">> \o Repeat("A", AddressHexLen)
AddressC == <<"0", "x">> \o [i \in 1..AddressHexLen |-> IF i % 2 = 0 THEN "c" ELSE "1"]

\* what useAccount() can return: disconnected, connected with an address,
\* and reconnecting (the last address, isConnected false)
AccountStates ==
    {[address |-> Null, isConnected |-> FALSE],
     [address |-> Some(AddressA), isConnected |-> TRUE],
     [address |-> Some(AddressB), isConnected |-> TRUE],
     [address |-> Some(AddressA), isConnected |-> FALSE]}

\* what usePrivy() can return: authenticated only once ready
PrivyStates ==
    {p \in [ready : BOOLEAN, authenticated : BOOLEAN] : p.authenticated => p.ready}

\* wallets Privy can hold: an embedded one, external ones, one whose address
\* is not known yet
PrivyWalletSamples ==
    {[address |-> AddressAUpper, walletClientType |-> "metamask"],
     [address |-> AddressB, walletClientType |-> "privy"],
     [address |-> AddressC, walletClientType |-> "rainbow"],
     [address |-> <<>>, walletClientType |-> "phantom"]}

\* what useWallets() can return: wallets with pairwise different addresses
PrivyWalletLists ==
    {l \in UNION {[1..n -> PrivyWalletSamples] : n \in 0..MaxPrivyWallets} :
        \A i, j \in 1..Len(l) :
            i # j => normalizeAddress(l[i].address) # normalizeAddress(l[j].address)}

\* wagmi reports another account state: the component renders again, and
\* the effect is due when farcasterAddress, one of its dependencies, changed
WalletsAccountChanges(acct) ==
    /\ acct # useAccount
    /\ useAccount' = acct
    /\ effectsDue' = IF acct.address # useAccount.address
                     THEN effectsDue \cup {"privyWallets"}
                     ELSE effectsDue
    /\ lastOp' = [op |-> "useAccount", issued |-> 0]
    /\ UNCHANGED <<walletVars, fetchVars, envVars, fmtVars, fnVars, callVars, hookVars>>

\* Privy reports another state or another wallet list: the component renders
\* again and the effect is due
PrivyChanges(p, raw) ==
    /\ <<p, raw>> # <<usePrivy, privyWalletsRaw>>
    /\ usePrivy' = p
    /\ privyWalletsRaw' = raw
    /\ effectsDue' = effectsDue \cup {"privyWallets"}
    /\ lastOp' = [op |-> "usePrivy", issued |-> 0]
    /\ UNCHANGED <<useAccount, privyWallets, fetchVars, envVars, fmtVars, fnVars,
                   callVars, hookVars>>

\* React runs the effect that is due, after the render that made it due has
\* been committed
RunWalletsEffect ==
    /\ "privyWallets" \in effectsDue
    /\ privyWallets' = PrivyWalletsEffect(useAccount.address, usePrivy, privyWalletsRaw)
    /\ effectsDue' = effectsDue \ {"privyWallets"}
    /\ lastOp' = [op |-> "effect", issued |-> 0]
    /\ UNCHANGED <<useAccount, usePrivy, privyWalletsRaw, fetchVars, envVars, fmtVars,
                   fnVars, callVars, hookVars>>

(***************************************************************************)
(* SpecWallets: useMultipleWallets, mounted, under changes of the account  *)
(* and of Privy                                                            *)
(***************************************************************************)
\* the first render: privyWallets is [], the effect has not run yet
InitWallets ==
    /\ NEXT_PUBLIC_ALCHEMY_API_KEY = "key"
    /\ networkKeys = NetworkOrder
    /\ includeMetadata = TRUE
    /\ CallsIdle
    /\ useAccount \in AccountStates
    /\ usePrivy \in PrivyStates
    /\ privyWalletsRaw \in PrivyWalletLists
    /\ privyWallets = <<>>
    /\ effectsDue = {"privyWallets"}
    /\ autoFetch = TRUE
    /\ useTokenBalances = [balances |-> Null, isLoading |-> FALSE, error |-> Null]
    /\ fetches = <<>>

NextWallets ==
    \/ \E acct \in AccountStates : WalletsAccountChanges(acct)
    \/ \E p \in PrivyStates, raw \in PrivyWalletLists : PrivyChanges(p, raw)
    \/ RunWalletsEffect

SpecWallets == InitWallets /\ [][NextWallets]_vars

(***************************************************************************)
(* useTokenBalances                                                        *)
(***************************************************************************)
\* number of fetchBalances invocations that start a scan
MaxFetches == 2

NoWalletMessage == "No hay wallet conectada"

\* fetchBalances with the address check after setIsLoading(true)
StartFetch_CheckAfterLoading(state, address) ==
    [state EXCEPT !.isLoading = TRUE,
                  !.error = IF IsNull(address) THEN Some(NoWalletMessage) ELSE Null]

\* fetchBalances up to its await: the address check, then setIsLoading(true)
\* and setError(null)
StartFetch(state, address) ==
    IF IsNull(address)
    THEN [state EXCEPT !.error = Some(NoWalletMessage)]
    ELSE [state EXCEPT !.isLoading = TRUE, !.error = Null]

\* the catch clause of fetchBalances
FetchErrorMessage(e) ==
    IF e.isError THEN e.message ELSE "Error desconocido al obtener balances"

\* fetchBalances after its await: setBalances(result) or setError(message),
\* then setIsLoading(false) in the finally clause
SettleFetch(state, outcome) ==
    IF outcome.threw
    THEN [state EXCEPT !.error = Some(FetchErrorMessage(outcome.error)),
                       !.isLoading = FALSE]
    ELSE [state EXCEPT !.balances = Some(outcome.value), !.isLoading = FALSE]

\* The continuation of the fetchBalances invocation whose scan has settled.
\* A call belongs to one invocation, so at most one finishes at a time.
CompleteFetches(h, cls) ==
    LET fin == {f \in 1..Len(h.fetches) :
                   ~h.fetches[f].done /\ Settled(cls[h.fetches[f].call].outcome)}
    IN  IF fin = {} THEN h
        ELSE LET f == CHOOSE f \in fin : TRUE
             IN  [state |-> SettleFetch(h.state, cls[h.fetches[f].call].outcome),
                  fetches |-> [h.fetches EXCEPT ![f].done = TRUE]]

\* fetchBalances() of the render that has `address`, called by the auto-fetch
\* effect or as refetch, up to the point where it has nothing left to run:
\* it returned at the address check, or its scan waits for a response, or its
\* scan has failed before any request
fetchBalances(address, by) ==
    IF IsNull(address)
    THEN [state |-> StartFetch(useTokenBalances, address), fetches |-> fetches,
          calls |-> calls, reqs |-> {}]
    ELSE LET c == Len(calls) + 1
             st == StartCall(c, address[1], includeMetadata,
                             NEXT_PUBLIC_ALCHEMY_API_KEY, networkKeys)
             cls == Append(calls, st.call)
             h == CompleteFetches(
                      [state |-> StartFetch(useTokenBalances, address),
                       fetches |-> Append(fetches,
                                      [address |-> address[1], call |-> c,
                                       by |-> by, done |-> FALSE])],
                      cls)
         IN  [state |-> h.state, fetches |-> h.fetches, calls |-> cls,
              reqs |-> st.reqs]

\* the condition without the autoFetch option
ShouldAutoFetch_IgnoresOption(auto, acct) ==
    acct.isConnected /\ ~IsNull(acct.address)

\* the condition of the auto-fetch effect
ShouldAutoFetch(auto, acct) == auto /\ acct.isConnected /\ ~IsNull(acct.address)

\* the fetchBalances invocations completed by the step to fetches fs
FetchesCompletedBy(fs) ==
    {f \in 1..Len(fs) : fs[f].done /\ (f \in 1..Len(fetches) => ~fetches[f].done)}

\* wagmi reports another account state: the component renders again.  The
\* auto-fetch effect depends on isConnected, address and fetchBalances (a new
\* function when address changes), the disconnect effect on isConnected.
FetchAccountChanges(acct) ==
    /\ acct # useAccount
    /\ useAccount' = acct
    /\ effectsDue' = effectsDue \cup {"autoFetch"}
                        \cup (IF acct.isConnected # useAccount.isConnected
                              THEN {"disconnect"} ELSE {})
    /\ lastOp' = [op |-> "useAccount", issued |-> 0, before |-> useTokenBalances,
                  started |-> {}, completed |-> {}]
    /\ UNCHANGED <<walletVars, fetchVars, envVars, fmtVars, fnVars, callVars, hookVars>>

\* React runs the effects that are due, in the order of the source: the
\* auto-fetch effect, then the effect that clears on disconnect
RunFetchEffects ==
    /\ effectsDue # {}
    /\ LET auto == "autoFetch" \in effectsDue /\ ShouldAutoFetch(autoFetch, useAccount)
           fb == IF auto THEN fetchBalances(useAccount.address, "effect")
                 ELSE [state |-> useTokenBalances, fetches |-> fetches,
                       calls |-> calls, reqs |-> {}]
       IN  /\ auto => Len(fetches) < MaxFetches
           /\ useTokenBalances' =
                  IF "disconnect" \in effectsDue /\ ~useAccount.isConnected
                  THEN [fb.state EXCEPT !.balances = Null, !.error = Null]
                  ELSE fb.state
           /\ fetches' = fb.fetches
           /\ calls' = fb.calls
           /\ requests' = requests (+) SetToBag(fb.reqs)
           /\ lastOp' = [op |-> "effects", issued |-> Cardinality(fb.reqs),
                         before |-> useTokenBalances,
                         started |-> (1..Len(fb.fetches)) \ (1..Len(fetches)),
                         completed |-> FetchesCompletedBy(fb.fetches)]
    /\ effectsDue' = {}
    /\ UNCHANGED <<useAccount, autoFetch, delivered, walletVars, envVars, fmtVars,
                   fnVars, hookVars>>

\* the component calls refetch, the fetchBalances of its last render
Refetch ==
    /\ ~IsNull(useAccount.address) => Len(fetches) < MaxFetches
    /\ LET fb == fetchBalances(useAccount.address, "refetch")
       IN  /\ useTokenBalances' = fb.state
           /\ fetches' = fb.fetches
           /\ calls' = fb.calls
           /\ requests' = requests (+) SetToBag(fb.reqs)
           /\ lastOp' = [op |-> "refetch", issued |-> Cardinality(fb.reqs),
                         before |-> useTokenBalances,
                         started |-> (1..Len(fb.fetches)) \ (1..Len(fetches)),
                         completed |-> FetchesCompletedBy(fb.fetches)]
    /\ UNCHANGED <<reactVars, autoFetch, delivered, walletVars, envVars, fmtVars,
                   fnVars, hookVars>>

\* a request settles and the scan it belongs to moves to st: the calls and
\* the hook afterwards
FetchAfter(c, st) ==
    LET cls == [calls EXCEPT ![c] = st.call]
        h == CompleteFetches([state |-> useTokenBalances, fetches |-> fetches], cls)
    IN  /\ calls' = cls
        /\ requests' = requests (+) SetToBag(st.reqs)
        /\ useTokenBalances' = h.state
        /\ fetches' = h.fetches
        /\ lastOp' = [op |-> "response", issued |-> Cardinality(st.reqs),
                      before |-> useTokenBalances, started |-> {},
                      completed |-> FetchesCompletedBy(h.fetches)]

\* the balance request of call c for network networkKeys[i] settles
FetchSettleBalance(c, i, resp) ==
    /\ c \in 1..Len(calls)
    /\ calls[c].phase = "balances"
    /\ i \in 1..Len(calls[c].net)
    /\ calls[c].net[i].pending
    /\ FetchAfter(c, OnBalanceResponse(c, calls[c], networkKeys, i, resp))
    /\ delivered' = Deliver(delivered, BalanceRequest(c, networkKeys[i]), resp)
    /\ UNCHANGED <<reactVars, autoFetch, walletVars, envVars, fmtVars, fnVars, hookVars>>

\* the metadata request of call c for token t of the network it is
\* enriching settles
FetchSettleMetadata(c, t, resp) ==
    /\ c \in 1..Len(calls)
    /\ calls[c].phase = "metadata"
    /\ t \in 1..Len(calls[c].meta)
    /\ calls[c].meta[t].pending
    /\ FetchAfter(c, OnMetadataResponse(c, calls[c], networkKeys, t, resp))
    /\ delivered' =
           Deliver(delivered,
                   MetadataRequest(c, networkKeys[calls[c].cursor], t,
                       calls[c].basic.balances[networkKeys[calls[c].cursor]].tokens[t]),
                   resp)
    /\ UNCHANGED <<reactVars, autoFetch, walletVars, envVars, fmtVars, fnVars, hookVars>>

FetchSettle(balanceResponses, metadataResponses) ==
    \/ \E c \in 1..Len(calls), i \in 1..Len(networkKeys), resp \in balanceResponses :
          FetchSettleBalance(c, i, resp)
    \/ \E c \in 1..Len(calls) :
          \E t \in 1..Len(calls[c].meta), resp \in metadataResponses :
              FetchSettleMetadata(c, t, resp)

(***************************************************************************)
(* SpecFetch: useTokenBalances, mounted with includeMetadata as the page    *)
(* mounts it, on a build with the first network of the registry, under     *)
(* changes of the account and calls of refetch                             *)
(***************************************************************************)
\* the first render: nothing fetched, both effects still to run
InitFetch ==
    /\ NEXT_PUBLIC_ALCHEMY_API_KEY \in ApiKeys
    /\ networkKeys = SubSeq(NetworkOrder, 1, 1)
    /\ includeMetadata = TRUE
    /\ CallsIdle
    /\ useAccount \in AccountStates
    /\ usePrivy = [ready |-> FALSE, authenticated |-> FALSE]
    /\ privyWalletsRaw = <<>>
    /\ privyWallets = <<>>
    /\ effectsDue = {"autoFetch", "disconnect"}
    /\ autoFetch \in BOOLEAN
    /\ useTokenBalances = [balances |-> Null, isLoading |-> FALSE, error |-> Null]
    /\ fetches = <<>>

NextFetch ==
    \/ \E acct \in AccountStates : FetchAccountChanges(acct)
    \/ RunFetchEffects
    \/ Refetch
    \/ FetchSettle({OneTokenResult}, {MetadataResult})

SpecFetch == InitFetch /\ [][NextFetch]_vars

(***************************************************************************)
(* Properties of getTokenBalancesForNetwork (SpecNetwork)                  *)
(***************************************************************************)
\* C2: every returned NetworkBalances with success = false has no tokens and
\* an error that is a non-empty string, and every one with success = true has
\* no error property, on every failure path (a rejection with an empty
\* message included).
C2_ErrorIffFailed ==
    ReturnedValue(fnOut) =>
        LET r == fnOut.value
        IN  /\ ~r.success =>
                  r.tokens = <<>> /\ "error" \in DOMAIN r /\ r.error # ""
            /\ r.success => "error" \notin DOMAIN r

\* the provider's entries of a result response ([] when there are none)
ProviderEntries(resp) ==
    IF resp.kind = "http" /\ resp.ok /\ resp.body = "object"
    THEN TokenBalancesOf(resp.data)
    ELSE <<>>

\* the amount an entry states: zero when tokenBalance is missing or empty
EntryAmount(entry) ==
    IF "tokenBalance" \in DOMAIN entry THEN BigInt(entry.tokenBalance) ELSE 0

PositiveIndexes(entries) ==
    {j \in 1..Len(entries) : EntryAmount(entries[j]) > 0}

\* C4: on success the returned tokens are exactly the provider's entries with
\* an amount strictly greater than zero, in the provider's order: the i-th
\* returned token is the i-th positive entry (same contract, same amount read
\* back from the decimal string), so none is zero and none is dropped.
C4_PositiveSubsequence ==
    (ReturnedValue(fnOut) /\ fnOut.value.success) =>
        LET entries == ProviderEntries(fnResp)
            pos == PositiveIndexes(entries)
            tokens == fnOut.value.tokens
        IN  /\ Len(tokens) = Cardinality(pos)
            /\ \A j \in pos :
                  LET i == Cardinality({p \in pos : p <= j})
                  IN  /\ tokens[i].contractAddress = entries[j].contractAddress
                      /\ DigitsValue(tokens[i].balance, 10) = EntryAmount(entries[j])
            /\ \A i \in 1..Len(tokens) : DigitsValue(tokens[i].balance, 10) > 0

\* a success that drops one entry (zero or missing amount) and keeps another
C4_Witness ==
    /\ ReturnedValue(fnOut)
    /\ fnOut.value.success
    /\ Len(ProviderEntries(fnResp)) = 2
    /\ Len(fnOut.value.tokens) = 1
    /\ ~("tokenBalance" \in DOMAIN ProviderEntries(fnResp)[1])
    /\ fnOut.value.tokens[1].balance = <<"4", "2">>

\* C5: with a registered network and a configured API key the call never
\* rejects, and a transport failure, a non-OK status, a non-JSON body and a
\* JSON-RPC error each come back as a value with success = false.
C5_NeverThrows ==
    (Settled(fnOut) /\ IsRegistered(fnKey) /\ ~ApiKeyMissing(NEXT_PUBLIC_ALCHEMY_API_KEY)) =>
        /\ ~fnOut.threw
        /\ fnResp \in FailureResponses => ~fnOut.value.success

\* a rejected fetch that came back as a failed NetworkBalances
C5_Witness ==
    /\ ReturnedValue(fnOut)
    /\ fnResp.kind = "reject"
    /\ IsRegistered(fnKey)
    /\ ~fnOut.value.success

(***************************************************************************)
(* Properties of getAllTokenBalances[WithMetadata] (SpecScan)              *)
(***************************************************************************)
ReturnedCalls == {c \in 1..Len(calls) : ReturnedValue(calls[c].outcome)}

\* C1: the balances map of every returned result has exactly the keys of
\* ALCHEMY_NETWORKS (failed networks included, none extra) and
\* summary.totalNetworks is the number of those keys.
C1_EveryNetworkListed ==
    \A c \in ReturnedCalls :
        LET v == calls[c].outcome.value
        IN  /\ DOMAIN v.balances = DOMAIN ALCHEMY_NETWORKS
            /\ v.summary.totalNetworks = Cardinality(DOMAIN ALCHEMY_NETWORKS)

\* a returned result in which some networks failed and some succeeded
C1_Witness ==
    \E c \in ReturnedCalls :
        LET v == calls[c].outcome.value
        IN  /\ \E k \in DOMAIN v.balances : ~v.balances[k].success
            /\ \E k \in DOMAIN v.balances : v.balances[k].success

RECURSIVE TokensIn(_, _)
TokensIn(balances, ks) ==
    IF ks = {} THEN 0
    ELSE LET k == CHOOSE k \in ks : TRUE
         IN  Len(balances[k].tokens) + TokensIn(balances, ks \ {k})

\* C3: in every returned result, with or without metadata enrichment,
\* summary.successfulNetworks is the number of entries of balances with
\* success = true and summary.totalTokensFound is the sum of tokens.length
\* over all entries, a failed network adding zero.
C3_SummaryCounts ==
    \A c \in ReturnedCalls :
        LET v == calls[c].outcome.value
        IN  /\ v.summary.successfulNetworks =
                   Cardinality({k \in DOMAIN v.balances : v.balances[k].success})
            /\ v.summary.totalTokensFound = TokensIn(v.balances, DOMAIN v.balances)
            /\ \A k \in DOMAIN v.balances :
                   ~v.balances[k].success => Len(v.balances[k].tokens) = 0

\* an enriched result with a failed network and a token whose lookup failed
C3_Witness ==
    \E c \in ReturnedCalls :
        LET v == calls[c].outcome.value
        IN  /\ calls[c].withMetadata
            /\ v.summary.totalTokensFound >= 2
            /\ \E k \in DOMAIN v.balances : ~v.balances[k].success
            /\ \E k \in DOMAIN v.balances :
                   \E t \in 1..Len(v.balances[k].tokens) :
                       IsNull(v.balances[k].tokens[t].metadata)

\* a network result and the one its request produced agree in everything
\* but the properties enrichment adds to the tokens
SameNetworkResult(a, b) ==
    /\ a.network = b.network
    /\ a.chainId = b.chainId
    /\ a.success = b.success
    /\ ("error" \in DOMAIN a) = ("error" \in DOMAIN b)
    /\ "error" \in DOMAIN a => a.error = b.error
    /\ Len(a.tokens) = Len(b.tokens)
    /\ \A t \in 1..Len(a.tokens) :
           /\ a.tokens[t].contractAddress = b.tokens[t].contractAddress
           /\ a.tokens[t].balance = b.tokens[t].balance

\* what the request of call c for network key produced, from its response
OwnResult(c, key) ==
    ProcessResponse(ALCHEMY_NETWORKS[key], delivered[BalanceRequest(c, key)])

\* C6: a call that passes validation has issued exactly one balance request
\* per registered network before any of them has settled; each settled
\* promise holds what its own request produced, whatever the others did; and
\* in the returned result balances[k] is the result of network k's request.
C6_EachNetworkItsOwnResult ==
    \A c \in 1..Len(calls) :
        Len(calls[c].net) > 0 =>
            /\ \A i \in 1..Len(networkKeys) :
                   CopiesIn(BalanceRequest(c, networkKeys[i]), requests) = 1
            /\ \A i \in 1..Len(networkKeys) :
                   ~calls[c].net[i].pending =>
                       /\ BalanceRequest(c, networkKeys[i]) \in DOMAIN delivered
                       /\ calls[c].net[i].value = OwnResult(c, networkKeys[i])
            /\ ReturnedValue(calls[c].outcome) =>
                   \A k \in DOMAIN ALCHEMY_NETWORKS :
                       SameNetworkResult(calls[c].outcome.value.balances[k],
                                         OwnResult(c, k))

\* a returned result whose first network failed and whose second succeeded
C6_Witness ==
    \E c \in ReturnedCalls :
        LET v == calls[c].outcome.value
        IN  /\ ~v.balances[networkKeys[1]].success
            /\ v.balances[networkKeys[2]].success
            /\ ~v.balances[networkKeys[3]].success

HexCharSet ==
    {"0", "1", "2", "3", "4", "5", "6", "7", "8", "9",
     "a", "b", "c", "d", "e", "f", "A", "B", "C", "D", "E", "F"}

\* 0x followed by exactly 40 hex digits
WellFormedAddress(a) ==
    /\ Len(a) = 42
    /\ SubSeq(a, 1, 2) = <<"0", "x">>
    /\ \A i \in 3..42 : a[i] \in HexCharSet

InvalidAddressErrors ==
    {"Se requiere una direccion de wallet", "Formato de direccion de wallet invalido"}

RejectedAsInvalid(call) ==
    /\ Settled(call.outcome)
    /\ call.outcome.threw
    /\ call.outcome.error.message \in InvalidAddressErrors

\* C7: a call whose address is empty or is not 0x followed by exactly 40 hex
\* digits fails with the address error and has issued no HTTP request; a
\* call whose address matches never fails with that error.
C7_InvalidAddressFailsFirst ==
    \A c \in 1..Len(calls) :
        /\ ~WellFormedAddress(calls[c].address) =>
               /\ RejectedAsInvalid(calls[c])
               /\ \A r \in BagToSet(requests) : r.call # c
        /\ WellFormedAddress(calls[c].address) => ~RejectedAsInvalid(calls[c])

\* a call with one hex digit too many, rejected
C7_Witness ==
    \E c \in 1..Len(calls) :
        /\ Len(calls[c].address) = 43
        /\ RejectedAsInvalid(calls[c])

(***************************************************************************)
(* Properties of useMultiWalletTokenBalances (Spec)                        *)
(***************************************************************************)
\* C8: after every searchAllWallets([]), in any state, no request has been
\* issued by it, allBalances is [] and the summary is all zeros.
C8_EmptySearchLeavesEmpty ==
    (lastOp.op = "searchAllWallets" /\ Len(lastOp.wallets) = 0) =>
        /\ lastOp.issued = 0
        /\ allBalances = <<>>
        /\ Summary(allBalances) =
               [totalWallets |-> 0, totalTokens |-> 0, successfulWallets |-> 0]

\* The entry a wallet gets from its own address and the responses to its own
\* requests alone: an error entry when the address is malformed or the API
\* key is missing, else the per-network results of its own responses, each
\* token enriched from its own metadata response.
OwnEntry(c, wallet) ==
    IF ~WellFormedAddress(wallet.address) \/ NEXT_PUBLIC_ALCHEMY_API_KEY = ""
    THEN [walletAddress |-> wallet.address, label |-> wallet.label,
          result |-> Null,
          error |-> Some(IF wallet.address = <<>>
                         THEN "Se requiere una direccion de wallet"
                         ELSE IF ~WellFormedAddress(wallet.address)
                         THEN "Formato de direccion de wallet invalido"
                         ELSE ApiKeyError.message)]
    ELSE LET own == [k \in KeySet(networkKeys) |-> OwnResult(c, k)]
             enriched(k) ==
                 IF includeMetadata /\ own[k].success
                 THEN [own[k] EXCEPT !.tokens =
                          [t \in 1..Len(@) |->
                              EnrichToken(@[t],
                                  ProcessMetadata(
                                      delivered[MetadataRequest(c, k, t, @[t])]))]]
                 ELSE own[k]
         IN  [walletAddress |-> wallet.address, label |-> wallet.label,
              result |-> Some(
                  [walletAddress |-> wallet.address,
                   summary |->
                       [totalNetworks |-> Len(networkKeys),
                        successfulNetworks |->
                            Cardinality({k \in KeySet(networkKeys) : own[k].success}),
                        totalTokensFound |-> TokensIn(own, KeySet(networkKeys))],
                   balances |-> [k \in KeySet(networkKeys) |-> enriched(k)]]),
              error |-> Null]

\* C9: when a scan completes, every wallet's entry is the one its own address
\* and its own responses give, whatever the other wallets of the list were
\* and whatever happened to them: a wallet-level failure shows as error set
\* and result null in that wallet's entry only.
C9_WalletsIndependent ==
    \A s \in 1..Len(scans) :
        scans[s].done =>
            /\ Len(allBalances) = Len(scans[s].wallets)
            /\ \A i \in 1..Len(scans[s].wallets) :
                   allBalances[i] = OwnEntry(scans[s].calls[i], scans[s].wallets[i])

\* a completed scan of a malformed address and a good one, the good one
\* with one failed and one successful network
C9_Witness ==
    /\ Len(scans) = 1
    /\ scans[1].done
    /\ Len(allBalances) = 2
    /\ ~IsNull(allBalances[1].error)
    /\ IsNull(allBalances[1].result)
    /\ ~IsNull(allBalances[2].result)
    /\ allBalances[2].result[1].summary.successfulNetworks = 1

\* C10: when a scan of w[1..n] completes, allBalances has n entries and the
\* i-th carries w[i].address and w[i].label, in whatever order the requests
\* and the per-wallet tasks settled.
C10_InputOrderKept ==
    \A s \in 1..Len(scans) :
        scans[s].done =>
            /\ Len(allBalances) = Len(scans[s].wallets)
            /\ \A i \in 1..Len(scans[s].wallets) :
                   /\ allBalances[i].walletAddress = scans[s].wallets[i].address
                   /\ allBalances[i].label = scans[s].wallets[i].label

\* a completed scan of two good wallets whose second task settled first
C10_Witness ==
    /\ Len(scans) = 1
    /\ scans[1].done
    /\ Len(scans[1].wallets) = 2
    /\ scans[1].order = <<scans[1].calls[2], scans[1].calls[1]>>
    /\ ~IsNull(allBalances[1].result)
    /\ ~IsNull(allBalances[2].result)

\* C11: in every reachable state every entry of allBalances has exactly one
\* of result and error: result non-null and error null, or result null and
\* error non-null.
C11_ResultXorError ==
    \A i \in 1..Len(allBalances) :
        IsNull(allBalances[i].result) # IsNull(allBalances[i].error)

\* a completed scan whose first wallet has a result and whose second an error
C11_Witness ==
    /\ Len(allBalances) = 2
    /\ ~IsNull(allBalances[1].result)
    /\ IsNull(allBalances[1].error)
    /\ IsNull(allBalances[2].result)
    /\ ~IsNull(allBalances[2].error)

RECURSIVE TokensFoundIn(_, _)
TokensFoundIn(entries, is) ==
    IF is = {} THEN 0
    ELSE LET i == CHOOSE i \in is : TRUE
         IN  entries[i].result[1].summary.totalTokensFound
                 + TokensFoundIn(entries, is \ {i})

WithResult(entries) == {i \in 1..Len(entries) : ~IsNull(entries[i].result)}

\* C12: in every reachable state summary.totalWallets is the number of
\* entries of allBalances, summary.successfulWallets the number of entries
\* with a non-null result, and summary.totalTokens the sum of
\* result.summary.totalTokensFound over the entries with a result.
C12_HookSummaryCounts ==
    /\ Summary(allBalances).totalWallets = Len(allBalances)
    /\ Summary(allBalances).successfulWallets = Cardinality(WithResult(allBalances))
    /\ Summary(allBalances).totalTokens =
           TokensFoundIn(allBalances, WithResult(allBalances))

\* two entries, one failed wallet and one wallet with a token on one network
\* and a failure on the other
C12_Witness ==
    /\ Len(allBalances) = 2
    /\ Cardinality(WithResult(allBalances)) = 1
    /\ \E i \in WithResult(allBalances) :
           /\ allBalances[i].result[1].summary.totalTokensFound = 1
           /\ allBalances[i].result[1].summary.successfulNetworks = 1
    /\ Summary(allBalances).totalTokens = 1

(***************************************************************************)
(* The native asset (SpecNetwork)                                          *)
(***************************************************************************)
\* an entry for the chain's native asset: the "native" sentinel in place of
\* a contract address, or the isNative flag
IsNativeEntry(token) ==
    \/ token.contractAddress = "native"
    \/ "isNative" \in DOMAIN token /\ token.isNative

\* C13: in every successful network result, a native balance above zero is
\* the first entry of tokens, as the native entry carrying that balance; with
\* a native balance of zero there is no native entry; a native entry never
\* comes after a fungible token and never carries a zero balance.
C13_NativeFirst ==
    (ReturnedValue(fnOut) /\ fnOut.value.success) =>
        LET tokens == fnOut.value.tokens
            native == BigInt(nativeBalance)
        IN  /\ native > 0 =>
                   /\ Len(tokens) > 0
                   /\ IsNativeEntry(tokens[1])
                   /\ tokens[1].balance = BigIntToString(native)
            /\ native = 0 => \A t \in 1..Len(tokens) : ~IsNativeEntry(tokens[t])
            /\ \A t \in 2..Len(tokens) : ~IsNativeEntry(tokens[t])
            /\ \A t \in 1..Len(tokens) :
                   IsNativeEntry(tokens[t]) => tokens[t].balance # <<"0">>

(***************************************************************************)
(* Properties of formatTokenBalance (SpecFormat)                           *)
(***************************************************************************)
\* floor(b / 10^d), a dot, and the first min(6, d) digits of b mod 10^d
\* padded to d digits, read off the decimal digits of b: the quotient is the
\* digits before the last d, the remainder the last d digits
ExactFormat(b, d) ==
    LET n == Len(b)
        whole == IF n > d THEN SubSeq(b, 1, n - d) ELSE <<"0">>
        fraction == IF n > d THEN SubSeq(b, n - d + 1, n)
                    ELSE [i \in 1..(d - n) |-> "0"] \o b
    IN  whole \o <<".">> \o SubSeq(fraction, 1, IF d < 6 THEN d ELSE 6)

\* C14: for every balance b >= 0 and every decimals d >= 1, above 22
\* included, formatTokenBalance(b, d) is floor(b / 10^d), a dot, and the first
\* min(6, d) digits of b mod 10^d left-padded to d digits, truncated and
\* divided by the exact 10^d.
C14_FormatExact ==
    ReturnedValue(fmtOut) => fmtOut.value = ExactFormat(fmtBalance, fmtDecimals)

\* the same for the decimals up to 22, where 10 ** decimals is exact
FormatExactUpTo22 ==
    (ReturnedValue(fmtOut) /\ fmtDecimals <= 22) =>
        fmtOut.value = ExactFormat(fmtBalance, fmtDecimals)

\* the three examples of the specification
FormatExamples ==
    /\ formatTokenBalance(<<"1">> \o Repeat("0", 18), 18)
           = <<"1", ".", "0", "0", "0", "0", "0", "0">>
    /\ formatTokenBalance(<<"1", "2", "3", "4", "5", "6", "0">>, 6)
           = <<"1", ".", "2", "3", "4", "5", "6", "0">>
    /\ formatTokenBalance(<<"5", "0", "0">>, 3) = <<"0", ".", "5", "0", "0">>

(***************************************************************************)
(* Properties of the metadata enrichment (SpecEnrich, SpecScan)            *)
(***************************************************************************)
\* a metadata lookup that failed: a transport error, a status outside 2xx,
\* a body that is not a JSON object, or a JSON-RPC error
FailedLookup(resp) ==
    \/ resp.kind = "reject"
    \/ ~resp.ok
    \/ resp.body # "object"
    \/ "error" \in DOMAIN resp.data

\* the answer to the metadata request of token t of network k in call c
LookupOf(c, k, t) ==
    delivered[MetadataRequest(c, k, t, OwnResult(c, k).tokens[t])]

\* the networks of call c that the enrichment loop does not skip
Enriched(c) ==
    {k \in KeySet(networkKeys) :
        OwnResult(c, k).success /\ Len(OwnResult(c, k).tokens) > 0}

\* C15: in a result of getAllTokenBalancesWithMetadata every failed metadata
\* lookup (transport error, status outside 2xx, unparsable body, JSON-RPC
\* error) leaves metadata = null on its token and only there: the token stays
\* in the list, the other tokens carry the metadata of their own lookups, and
\* the network keeps success = true and the number of its tokens.
C15_FailedLookupIsNull ==
    \A c \in ReturnedCalls :
        calls[c].withMetadata =>
            \A k \in Enriched(c) :
                LET got == calls[c].outcome.value.balances[k]
                IN  /\ got.success
                    /\ Len(got.tokens) = Len(OwnResult(c, k).tokens)
                    /\ \A t \in 1..Len(got.tokens) :
                           /\ got.tokens[t].contractAddress =
                                  OwnResult(c, k).tokens[t].contractAddress
                           /\ IF FailedLookup(LookupOf(c, k, t))
                              THEN IsNull(got.tokens[t].metadata)
                              ELSE got.tokens[t].metadata =
                                       Some(MetadataOf(LookupOf(c, k, t).data))

\* the tokens of every network of a returned result
TokensOf(v) ==
    UNION {{v.balances[k].tokens[t] : t \in 1..Len(v.balances[k].tokens)} :
              k \in DOMAIN v.balances}

\* C16: in every token returned by getAllTokenBalancesWithMetadata,
\* formattedBalance is present only together with non-null metadata, and is
\* then formatTokenBalance(balance, metadata.decimals).
C16_FormattedNeedsMetadata ==
    \A c \in ReturnedCalls :
        calls[c].withMetadata =>
            \A token \in TokensOf(calls[c].outcome.value) :
                "formattedBalance" \in DOMAIN token =>
                    /\ ~IsNull(token.metadata)
                    /\ token.formattedBalance =
                           formatTokenBalance(token.balance, token.metadata[1].decimals)

\* the metadata requests issued for call c
MetadataRequestsOf(c) ==
    {r \in BagToSet(requests) : r.call = c /\ r.method = "alchemy_getTokenMetadata"}

\* C17: a call of getAllTokenBalances issues no metadata request, and every
\* token it returns has contractAddress and balance and nothing else.
C17_PlainTokensOnly ==
    \A c \in 1..Len(calls) :
        ~calls[c].withMetadata =>
            /\ MetadataRequestsOf(c) = {}
            /\ ReturnedValue(calls[c].outcome) =>
                   \A token \in TokensOf(calls[c].outcome.value) :
                       DOMAIN token = {"contractAddress", "balance"}

\* a returned plain result with tokens on two networks
C17_Witness ==
    \E c \in ReturnedCalls :
        /\ ~calls[c].withMetadata
        /\ calls[c].outcome.value.summary.successfulNetworks >= 2
        /\ calls[c].outcome.value.summary.totalTokensFound >= 4

(***************************************************************************)
(* The API key (SpecScan)                                                  *)
(***************************************************************************)
FailedWith(call, messages) ==
    /\ Settled(call.outcome)
    /\ call.outcome.threw
    /\ call.outcome.error.isError
    /\ call.outcome.error.message \in messages

\* C18 as stated: without an API key every call, whatever its address, fails
\* with the configuration error, and no HTTP request is ever issued.
C18_NoKeyConfigurationError ==
    NEXT_PUBLIC_ALCHEMY_API_KEY = "" =>
        /\ requests = EmptyBag
        /\ \A c \in 1..Len(calls) : FailedWith(calls[c], {ApiKeyError.message})

\* C18 amended: without an API key no HTTP request is ever issued and every
\* call fails: with the configuration error when its address is well formed,
\* with the address error when it is not (the address is checked first).
C18_NoKeyNoRequest ==
    NEXT_PUBLIC_ALCHEMY_API_KEY = "" =>
        /\ requests = EmptyBag
        /\ delivered = <<>>
        /\ \A c \in 1..Len(calls) :
               IF WellFormedAddress(calls[c].address)
               THEN FailedWith(calls[c], {ApiKeyError.message})
               ELSE FailedWith(calls[c], InvalidAddressErrors)

\* a call with a well-formed address that failed for want of the key
C18_Witness ==
    /\ NEXT_PUBLIC_ALCHEMY_API_KEY = ""
    /\ \E c \in 1..Len(calls) :
           /\ WellFormedAddress(calls[c].address)
           /\ FailedWith(calls[c], {ApiKeyError.message})

(***************************************************************************)
(* Completion of a scan (SpecLive)                                         *)
(***************************************************************************)
\* the first invocation has completed: isLoading is false and allBalances
\* has an entry for each of its wallets, a result listing every network
ScanComplete ==
    /\ Len(scans) > 0
    /\ scans[1].done
    /\ ~isLoading
    /\ Len(allBalances) = Len(scans[1].wallets)
    /\ \A i \in 1..Len(allBalances) :
           /\ allBalances[i].walletAddress = scans[1].wallets[i].address
           /\ ~IsNull(allBalances[i].result) =>
                  DOMAIN allBalances[i].result[1].balances = KeySet(networkKeys)

\* C19: if every HTTP request eventually settles, every started scan
\* eventually completes: isLoading is false again and allBalances has one
\* entry for every wallet of the input list, every attempted network being
\* in the balances of the entries that have a result.
C19_ScanCompletes == (Len(scans) > 0) ~> ScanComplete

\* a completed scan of two wallets on which every network failed
C19_Witness ==
    /\ ScanComplete
    /\ Len(allBalances) = 2
    /\ \A i \in 1..2 :
           /\ ~IsNull(allBalances[i].result)
           /\ allBalances[i].result[1].summary.successfulNetworks = 0

(***************************************************************************)
(* Successive scans (SpecRescan)                                           *)
(***************************************************************************)
\* the entries of invocation s, each from its own wallet and responses
OwnEntries(s) ==
    [i \in 1..Len(scans[s].wallets) |->
        OwnEntry(scans[s].calls[i], scans[s].wallets[i])]

\* the invocations completed by the step that led to this state
JustCompleted == IF "completed" \in DOMAIN lastOp THEN lastOp.completed ELSE {}

\* C20: when a non-empty scan that follows an earlier one completes,
\* allBalances is exactly the entries of that scan, one per wallet of its
\* list: nothing of the earlier scan is kept, merged in or appended to.
C20_NewScanReplaces ==
    \A s \in JustCompleted :
        s >= 2 =>
            /\ Len(allBalances) = Len(scans[s].wallets)
            /\ allBalances = OwnEntries(s)

\* the second scan has completed; it was started over the entries of the
\* first, with another list, and none of those entries is left
C20_Witness ==
    /\ Len(scans) = 2
    /\ 2 \in JustCompleted
    /\ Len(scans[2].before) = 1
    /\ Len(allBalances) = 2
    /\ allBalances = OwnEntries(2)
    /\ \A i \in 1..Len(allBalances) :
           allBalances[i].walletAddress # scans[2].before[1].walletAddress

(***************************************************************************)
(* One attempt per request (SpecScan)                                      *)
(***************************************************************************)
\* the requests issued for call c with the given method
RequestsOf(c, method) ==
    {r \in BagToSet(requests) : r.call = c /\ r.method = method}

\* call c got past the address checks and the API key
PassedChecks(c) ==
    /\ IsValidAddress(calls[c].address)
    /\ ~ApiKeyMissing(NEXT_PUBLIC_ALCHEMY_API_KEY)

\* the balance request of call c for network k has been answered
Answered(c, k) == BalanceRequest(c, k) \in DOMAIN delivered

\* the metadata requests that the tokens returned to call c call for: one
\* for every token of every network that answered with success
MetadataRequestsDue(c) ==
    UNION {{MetadataRequest(c, k, t, OwnResult(c, k).tokens[t]) :
               t \in 1..Len(OwnResult(c, k).tokens)} :
              k \in {k \in KeySet(networkKeys) :
                        Answered(c, k) /\ OwnResult(c, k).success}}

\* C24: in one scan of one wallet every request is issued once: a scan that
\* gets past the address checks and the API key issues exactly one
\* token-balance request per registered network (any other scan issues
\* none); a request is never issued again, whatever its answer; metadata
\* requests are issued only in enrichment mode and only for tokens returned
\* by a successful network, and when the scan has returned there is exactly
\* one for each of those tokens.
C24_OneAttemptPerRequest ==
    /\ \A r \in BagToSet(requests) : CopiesIn(r, requests) = 1
    /\ \A c \in 1..Len(calls) :
           /\ RequestsOf(c, "alchemy_getTokenBalances") =
                  IF PassedChecks(c)
                  THEN {BalanceRequest(c, k) : k \in KeySet(networkKeys)}
                  ELSE {}
           /\ RequestsOf(c, "alchemy_getTokenMetadata") \subseteq
                  IF calls[c].withMetadata THEN MetadataRequestsDue(c) ELSE {}
           /\ ReturnedValue(calls[c].outcome) /\ calls[c].withMetadata =>
                  RequestsOf(c, "alchemy_getTokenMetadata") = MetadataRequestsDue(c)

\* an enriched scan has returned: one network failed and got no second
\* request and no metadata request, another returned two tokens and got one
\* metadata request for each, one of which failed
C24_Witness ==
    \E c \in ReturnedCalls :
        /\ calls[c].withMetadata
        /\ \E k \in KeySet(networkKeys) :
               /\ ~OwnResult(c, k).success
               /\ CopiesIn(BalanceRequest(c, k), requests) = 1
               /\ \A r \in RequestsOf(c, "alchemy_getTokenMetadata") : r.network # k
        /\ \E k \in KeySet(networkKeys) :
               /\ Len(OwnResult(c, k).tokens) = 2
               /\ Cardinality({r \in RequestsOf(c, "alchemy_getTokenMetadata") :
                                  r.network = k}) = 2
               /\ \E t \in 1..2 : delivered[MetadataRequest(c, k, t,
                                         OwnResult(c, k).tokens[t])].kind = "reject"

(***************************************************************************)
(* A network result is all or nothing (SpecNetwork)                        *)
(***************************************************************************)
\* an entry whose tokenBalance is a string that BigInt cannot read (an entry
\* without tokenBalance, or with the empty string, states no amount and is
\* read as '0')
Unreadable(entry) ==
    "tokenBalance" \in DOMAIN entry /\ ~BigIntParses(entry.tokenBalance)

\* the call ran with a registered network and a configured API key
NetworkCallRan ==
    /\ Settled(fnOut)
    /\ IsRegistered(fnKey)
    /\ ~ApiKeyMissing(NEXT_PUBLIC_ALCHEMY_API_KEY)

\* C30: a network result is all or nothing.  When one entry of the response
\* carries a tokenBalance that cannot be read as an integer, the call returns
\* (it does not throw) success = false with an error and an empty tokens
\* list, whatever the other entries are; when the JSON object of the response
\* has neither error nor result, it returns success = true with an empty
\* tokens list.
C30_AllOrNothing ==
    NetworkCallRan =>
        /\ (\E i \in 1..Len(ProviderEntries(fnResp)) :
                Unreadable(ProviderEntries(fnResp)[i])) =>
               /\ ~fnOut.threw
               /\ ~fnOut.value.success
               /\ fnOut.value.tokens = <<>>
               /\ "error" \in DOMAIN fnOut.value
        /\ (fnResp.kind = "http" /\ fnResp.ok /\ fnResp.body = "object"
               /\ "error" \notin DOMAIN fnResp.data
               /\ "result" \notin DOMAIN fnResp.data) =>
               /\ ~fnOut.threw
               /\ fnOut.value.success
               /\ fnOut.value.tokens = <<>>

\* a response with a positive amount followed by one BigInt cannot read came
\* back as a failure without tokens
C30_Witness ==
    /\ NetworkCallRan
    /\ Len(ProviderEntries(fnResp)) = 2
    /\ EntryAmount(ProviderEntries(fnResp)[1]) > 0
    /\ Unreadable(ProviderEntries(fnResp)[2])
    /\ ReturnedValue(fnOut)
    /\ ~fnOut.value.success
    /\ fnOut.value.tokens = <<>>

\* a response whose JSON object is {} came back as a success without tokens
C30_EmptyObjectReached ==
    /\ NetworkCallRan
    /\ fnResp.kind = "http" /\ fnResp.ok /\ fnResp.body = "object"
    /\ fnResp.data = EmptyObject
    /\ ReturnedValue(fnOut)
    /\ fnOut.value.success

(***************************************************************************)
(* Overlapping scans (SpecRescan)                                          *)
(***************************************************************************)
\* the invocation started last (with a non-empty list)
LastInvoked == Len(scans)

\* every invocation has completed, and the one started last was started
\* while the one before it was still running
OverlappedAndSettled ==
    /\ Len(scans) >= 2
    /\ \A s \in 1..Len(scans) : scans[s].done
    /\ (LastInvoked - 1) \in scans[LastInvoked].during

\* C26: when two searchAllWallets calls overlap, then once both have settled
\* allBalances holds the entries of the call invoked last, whichever of the
\* two finished last.
C26_LastInvokedWins ==
    OverlappedAndSettled => allBalances = OwnEntries(LastInvoked)

(***************************************************************************)
(* The wallets list (SpecWallets)                                          *)
(***************************************************************************)
\* C21: in every reachable state of useMultipleWallets the exposed wallets
\* list has no two entries whose addresses are equal ignoring case, also in
\* the render between a change of the Farcaster address and the effect that
\* filters the Privy wallets again.
C21_NoDuplicateWallets ==
    \A i, j \in 1..Len(ExposedWallets) :
        i # j => normalizeAddress(ExposedWallets[i].address)
                     # normalizeAddress(ExposedWallets[j].address)

\* once the effect has run, the list has no two such entries
WalletsDistinctAfterEffect == effectsDue = {} => C21_NoDuplicateWallets

(***************************************************************************)
(* Properties of useTokenBalances (SpecFetch)                              *)
(***************************************************************************)
\* a fetchBalances invocation whose scan has not settled
FetchInFlight == \E f \in 1..Len(fetches) : ~fetches[f].done

\* the fetchBalances invocations completed, and those started, by the step
\* that led to this state
FetchesJustCompleted ==
    IF "started" \in DOMAIN lastOp THEN lastOp.completed ELSE {}
FetchesJustStarted ==
    IF "started" \in DOMAIN lastOp THEN lastOp.started ELSE {}

FetchFailed(f) == fetches[f].done /\ calls[fetches[f].call].outcome.threw

\* C22: while the wallet is disconnected and the disconnect effect has run,
\* balances and error are null, also when a fetch started before the
\* disconnect settles after it.
C22_ClearedWhileDisconnected ==
    (~useAccount.isConnected /\ "disconnect" \notin effectsDue) =>
        /\ IsNull(useTokenBalances.balances)
        /\ IsNull(useTokenBalances.error)

\* the wallet is disconnected, the effects have run, no fetch was started
\* since, and the response to a fetch started before has just put its result
\* in balances
SettledAfterDisconnect ==
    /\ IsNull(useAccount.address)
    /\ effectsDue = {}
    /\ lastOp.op = "response"
    /\ FetchesJustCompleted # {}
    /\ \A f \in 1..Len(fetches) : fetches[f].by = "effect"
    /\ ~FetchInFlight
    /\ ~IsNull(useTokenBalances.balances)

\* C23: with autoFetch = true the effects that run once the wallet is
\* connected with an address (after mount, after connecting, after a change
\* of the address) start a fetch for that address; with autoFetch = false no
\* fetch is started by an effect and no request is issued while refetch has
\* not been called.
C23_AutoFetchOnlyWhenAsked ==
    /\ (lastOp.op = "effects" /\ autoFetch /\ useAccount.isConnected
           /\ ~IsNull(useAccount.address)) =>
           \E f \in FetchesJustStarted :
               /\ fetches[f].by = "effect"
               /\ fetches[f].address = useAccount.address[1]
    /\ ~autoFetch =>
           /\ \A f \in 1..Len(fetches) : fetches[f].by = "refetch"
           /\ fetches = <<>> => requests = EmptyBag

\* the address changed and the effects started a second fetch, for the new
\* address, after the one for the address the wallet connected with
C23_Witness ==
    /\ autoFetch
    /\ lastOp.op = "effects"
    /\ Len(fetches) = 2
    /\ FetchesJustStarted = {2}
    /\ fetches[1].by = "effect" /\ fetches[1].address = AddressA
    /\ fetches[2].by = "effect" /\ fetches[2].address = AddressB
    /\ lastOp.issued = 1

\* C25: whenever balances is non-null and no fetch is in flight,
\* balances.walletAddress is the address that is connected now.
C25_BalancesOfCurrentAddress ==
    (~IsNull(useTokenBalances.balances) /\ ~FetchInFlight) =>
        /\ ~IsNull(useAccount.address)
        /\ useTokenBalances.balances[1].walletAddress = useAccount.address[1]

\* both auto-fetches have settled, the one for the old address last, and
\* balances is the old wallet's while the new one is connected
StaleBalancesShown ==
    /\ autoFetch
    /\ effectsDue = {}
    /\ Len(fetches) = 2
    /\ \A f \in 1..2 : fetches[f].by = "effect"
    /\ ~FetchInFlight
    /\ FetchesJustCompleted = {1}
    /\ useAccount = [address |-> Some(fetches[2].address), isConnected |-> TRUE]
    /\ fetches[1].address # fetches[2].address
    /\ useTokenBalances.balances[1].walletAddress = fetches[1].address

\* C27: in both hooks isLoading is true exactly while a scan or fetch started
\* by the hook has not settled, also when calls overlap.
C27_LoadingWhileInFlight ==
    /\ isLoading <=> \E s \in 1..Len(scans) : ~scans[s].done
    /\ useTokenBalances.isLoading <=> FetchInFlight

\* C28: a fetch that fails sets error to a message, leaves balances as they
\* were and isLoading false; a fetch that succeeds puts its result in balances
\* and leaves error null; after a fetch has settled, error is non-null
\* exactly when the fetch started last has failed.
C28_FetchOutcome ==
    \A f \in FetchesJustCompleted :
        /\ FetchFailed(f) =>
               /\ ~IsNull(useTokenBalances.error)
               /\ useTokenBalances.balances = lastOp.before.balances
               /\ ~useTokenBalances.isLoading
        /\ ~FetchFailed(f) =>
               /\ useTokenBalances.balances =
                      Some(calls[fetches[f].call].outcome.value)
               /\ IsNull(useTokenBalances.error)
        /\ ~IsNull(useTokenBalances.error) <=> FetchFailed(Len(fetches))

\* what a settling fetch does to the state it finds: on failure a message in
\* error, balances kept, isLoading false; on success its result in balances,
\* error kept, isLoading false
FetchOutcomeFrame ==
    \A f \in FetchesJustCompleted :
        /\ ~useTokenBalances.isLoading
        /\ FetchFailed(f) =>
               /\ useTokenBalances.error =
                      Some(FetchErrorMessage(calls[fetches[f].call].outcome.error))
               /\ useTokenBalances.balances = lastOp.before.balances
        /\ ~FetchFailed(f) =>
               /\ useTokenBalances.balances =
                      Some(calls[fetches[f].call].outcome.value)
               /\ lastOp.op = "response" =>
                      useTokenBalances.error = lastOp.before.error

\* C29: refetch called while no wallet address is available sets error to
\* 'No hay wallet conectada', starts no scan, issues no request and leaves
\* balances and isLoading as they were.
C29_RefetchWithoutWallet ==
    (lastOp.op = "refetch" /\ IsNull(useAccount.address)) =>
        /\ useTokenBalances.error = Some(NoWalletMessage)
        /\ lastOp.issued = 0
        /\ FetchesJustStarted = {}
        /\ useTokenBalances.balances = lastOp.before.balances
        /\ useTokenBalances.isLoading = lastOp.before.isLoading

\* refetch was called without an address while balances were shown and
\* isLoading was false
C29_Witness ==
    /\ lastOp.op = "refetch"
    /\ IsNull(useAccount.address)
    /\ ~IsNull(lastOp.before.balances)
    /\ ~lastOp.before.isLoading
    /\ IsNull(lastOp.before.error)
    /\ useTokenBalances.error = Some(NoWalletMessage)
    /\ useTokenBalances.balances = lastOp.before.balances

====
